---------------------------- MODULE Spec2Model ----------------------------
(***************************************************************************)
(* A model of the benchmark library: the Benchmarker measurement engine    *)
(* (src/src/benchmark.ts) and the statistics kernel it uses                *)
(* (src/src/statistics.ts).                                                *)
(*                                                                         *)
(* JavaScript numbers are modelled as tagged values: a finite number is a  *)
(* fixed-point integer with three decimal digits (Scale), and NaN,         *)
(* +Infinity and -Infinity are values of their own with the IEEE-754       *)
(* rules for the arithmetic the code performs on them.  Signed zero is not *)
(* modelled.  Time is counted in milliseconds.                             *)
(***************************************************************************)
EXTENDS Integers, Sequences, FiniteSets, TLC

(***************************************************************************)
(* Bounds of the model.                                                    *)
(***************************************************************************)
\* run() is invoked at most MaxRuns times on the Benchmarker
MaxRuns == 2
\* run() of a Suite is called up to MaxSuiteRuns times
MaxSuiteRuns == 2
\* the maxIterations option ranges over 0..MaxIterationsOption
MaxIterationsOption == 2
\* the count of calibration batches is kept up to MaxProbes
MaxProbes == 4
\* removeOutliers() is given up to MaxSamples samples
MaxSamples == 6
\* the size of a report given to compare is 0..MaxSize
MaxSize == 3
\* compareFunction is given up to MaxSuiteReports suite reports
MaxSuiteReports == 3

\* the resolution of a finite number of the model: three decimal digits
Scale == 10 * 10 * 10

(***************************************************************************)
(* Program constants.                                                      *)
(***************************************************************************)
\* marginOfError: the z-value 1.96, in hundredths
ZValueHundredths == 196
\* getOperationsPerSecond: 1000 milliseconds
MillisecondsPerSecond == 1000
\* getRME: the warning threshold 0.1, in percent
HighRmePercent == 10

(***************************************************************************)
(* JavaScript numbers.                                                     *)
(***************************************************************************)
Fin(n) == [k |-> "fin", v |-> n]
NaN == [k |-> "nan", v |-> 0]
PosInfinity == [k |-> "inf", v |-> 1]
NegInfinity == [k |-> "inf", v |-> -1]
Undefined == [k |-> "undefined", v |-> 0]
Num(n) == Fin(n * Scale)
Zero == Fin(0)

IsFinite(a) == a.k = "fin"
IsNaN(a) == a.k = "nan"
IsInfinite(a) == a.k = "inf"

Abs(n) == IF n < 0 THEN -n ELSE n
Sign(n) == IF n < 0 THEN -1 ELSE IF n > 0 THEN 1 ELSE 0
\* x / y rounded to the nearest integer, y # 0
RoundDiv(x, y) == Sign(x) * Sign(y) * ((2 * Abs(x) + Abs(y)) \div (2 * Abs(y)))

RECURSIVE SqrtSearch(_, _, _)
SqrtSearch(n, lo, hi) ==
    IF lo >= hi THEN lo
    ELSE LET mid == (lo + hi + 1) \div 2
         IN  IF mid * mid <= n THEN SqrtSearch(n, mid, hi)
             ELSE SqrtSearch(n, lo, mid - 1)
\* the integer square root of n >= 0 (46340 is the largest root whose square
\* the model checker's integers hold)
ISqrt(n) == SqrtSearch(n, 0, IF n < 46340 THEN n ELSE 46340)

\* a + b
Add(a, b) ==
    IF IsNaN(a) \/ IsNaN(b) THEN NaN
    ELSE IF IsInfinite(a) /\ IsInfinite(b) THEN (IF a.v = b.v THEN a ELSE NaN)
    ELSE IF IsInfinite(a) THEN a
    ELSE IF IsInfinite(b) THEN b
    ELSE Fin(a.v + b.v)

\* -a
Neg(a) == IF IsNaN(a) THEN NaN ELSE [k |-> a.k, v |-> -a.v]

\* a - b
Sub(a, b) == Add(a, Neg(b))

\* a * b
Mul(a, b) ==
    IF IsNaN(a) \/ IsNaN(b) THEN NaN
    ELSE IF IsInfinite(a) \/ IsInfinite(b)
         THEN (IF Sign(a.v) * Sign(b.v) = 0 THEN NaN
               ELSE [k |-> "inf", v |-> Sign(a.v) * Sign(b.v)])
    ELSE Fin(RoundDiv(a.v * b.v, Scale))

\* a / b
Div(a, b) ==
    IF IsNaN(a) \/ IsNaN(b) THEN NaN
    ELSE IF IsInfinite(a)
         THEN (IF IsInfinite(b) THEN NaN
               ELSE [k |-> "inf", v |-> a.v * (IF b.v < 0 THEN -1 ELSE 1)])
    ELSE IF IsInfinite(b) THEN Zero
    ELSE IF b.v = 0
         THEN (IF a.v = 0 THEN NaN ELSE [k |-> "inf", v |-> Sign(a.v)])
    ELSE Fin(RoundDiv(a.v * Scale, b.v))

\* Math.sqrt(a)
Sqrt(a) ==
    IF IsNaN(a) THEN NaN
    ELSE IF IsInfinite(a) THEN (IF a.v > 0 THEN a ELSE NaN)
    ELSE IF a.v < 0 THEN NaN
    ELSE Fin(ISqrt(a.v * Scale))

\* a < b
Lt(a, b) ==
    IF IsNaN(a) \/ IsNaN(b) THEN FALSE
    ELSE IF IsInfinite(a) THEN a.v < 0 /\ ~(IsInfinite(b) /\ b.v < 0)
    ELSE IF IsInfinite(b) THEN b.v > 0
    ELSE a.v < b.v

\* a > b, a <= b, a >= b
Gt(a, b) == Lt(b, a)
Le(a, b) == ~IsNaN(a) /\ ~IsNaN(b) /\ ~Lt(b, a)
Ge(a, b) == Le(b, a)

\* the truthiness of a number or undefined: if (a)
Truthy(a) == a # Undefined /\ ~IsNaN(a) /\ a # Zero

(***************************************************************************)
(* The statistics kernel (src/src/statistics.ts).                          *)
(***************************************************************************)
\* the Error thrown for an empty data array
EmptyDataError ==
    [k |-> "error", class |-> "Error",
     message |-> <<"Data array cannot be empty.">>]

RECURSIVE Sum(_)
\* data.reduce((sum, value) => sum + value, 0)
Sum(data) ==
    IF Len(data) = 0 THEN Zero
    ELSE Add(Sum(SubSeq(data, 1, Len(data) - 1)), data[Len(data)])

arithmeticMean(data) ==
    IF Len(data) = 0 THEN EmptyDataError
    ELSE Div(Sum(data), Num(Len(data)))

RECURSIVE Insert(_, _)
\* sorted with x put before the first element that is larger
Insert(sorted, x) ==
    IF Len(sorted) = 0 THEN <<x>>
    ELSE IF Lt(x, sorted[1]) THEN <<x>> \o sorted
    ELSE <<sorted[1]>> \o Insert(Tail(sorted), x)

RECURSIVE SortAscending(_)
\* [...data].sort((a, b) => a - b): a stable ascending sort of a copy
SortAscending(data) ==
    IF Len(data) = 0 THEN <<>>
    ELSE Insert(SortAscending(SubSeq(data, 1, Len(data) - 1)), data[Len(data)])

\* sortedData[index]: undefined outside the array
At(data, index) == IF index \in 1..Len(data) THEN data[index] ELSE Undefined

\* undefined becomes NaN in arithmetic
ToNumber(a) == IF a = Undefined THEN NaN ELSE a

median(data) ==
    IF Len(data) = 0 THEN EmptyDataError
    ELSE LET sorted == SortAscending(data)
             mid == Len(sorted) \div 2
         IN  IF Len(sorted) % 2 = 0
             THEN Div(Add(sorted[mid], sorted[mid + 1]), Num(2))
             ELSE sorted[mid + 1]

SumSquaredDeviations(data, mean) ==
    Sum([n \in 1..Len(data) |->
            Mul(Sub(data[n], mean), Sub(data[n], mean))])

sampleVariance(data) ==
    LET mean == arithmeticMean(data)
    IN  IF mean = EmptyDataError THEN EmptyDataError
        ELSE Div(SumSquaredDeviations(data, mean), Num(Len(data) - 1))

sampleStandardDeviation(data) ==
    LET variance == sampleVariance(data)
    IN  IF variance = EmptyDataError THEN EmptyDataError ELSE Sqrt(variance)

\* percentile is a whole number of percent; the array index is 0-based in
\* the source and 1-based here
getPercentile(sortedData, percentile) ==
    LET hundredths == percentile * (Len(sortedData) - 1)
        lower == hundredths \div 100
        upper == IF hundredths % 100 = 0 THEN lower ELSE lower + 1
        weight == Div(Num(hundredths % 100), Num(100))
    IN  Add(Mul(ToNumber(At(sortedData, lower + 1)), Sub(Num(1), weight)),
            Mul(ToNumber(At(sortedData, upper + 1)), weight))

marginOfError(stdDev, n) ==
    Mul(Div(stdDev, Sqrt(n)), Div(Num(ZValueHundredths), Num(100)))

relativeMarginOfError(mean, stdDev, n) == Div(marginOfError(stdDev, n), mean)

\* x ** 2
Square(x) == Mul(x, x)

\* a t-statistic that takes the first deviation for both samples
calculateTStatisticOneDeviation(mean1, mean2, s1, s2, n1, n2) ==
    Div(Sub(mean1, mean2),
        Sqrt(Add(Div(Square(s1), n1), Div(Square(s1), n2))))

calculateTStatistic(mean1, mean2, s1, s2, n1, n2) ==
    Div(Sub(mean1, mean2),
        Sqrt(Add(Div(Square(s1), n1), Div(Square(s2), n2))))

calculateDegreesOfFreedom(s1, s2, n1, n2) ==
    LET s1Squared == Square(s1)
        s2Squared == Square(s2)
        s1SqOverN1 == Div(s1Squared, n1)
    IN  Div(Square(Add(s1SqOverN1, Div(s2Squared, n2))),
            Add(Div(Square(s1SqOverN1), Sub(n1, Num(1))),
                Div(Square(Div(s2Squared, n2)), Sub(n2, Num(1)))))

\* an Error with a message: throw new Error(message)
Error(message) == [k |-> "error", class |-> "Error", message |-> message]
IsError(value) == value.k = "error"

\* Math.abs(a)
MathAbs(a) == IF IsNaN(a) THEN NaN ELSE [k |-> a.k, v |-> Abs(a.v)]

\* 2 * (1 - tCDF(t, df)) for t >= 0 and df > 0, not NaN.  For t = Infinity
\* x is 0, the incomplete beta function 0 and the CDF 1; for df = Infinity
\* x is NaN and so is all that follows; for t = 0, x is 1, the incomplete
\* beta function 1 and the CDF 0.5.  Otherwise the value is the one the
\* continued fraction yields for t and df, a number the model does not
\* compute: it is kept as the pair it is a function of.
TwoTailed(t, df) ==
    IF IsInfinite(df) THEN NaN
    ELSE IF IsInfinite(t) THEN Zero
    ELSE IF t = Zero THEN Num(1)
    ELSE [k |-> "p", t |-> t, df |-> df]

\* the p-value, or the Error thrown
calculatePValue(tStat, df) ==
    IF IsNaN(ToNumber(tStat)) \/ IsNaN(ToNumber(df))
    THEN Error(<<"t and df must be numbers.">>)
    ELSE IF Le(df, Zero)
         THEN Error(<<"Degrees of freedom must be greater than 0.">>)
    ELSE TwoTailed(MathAbs(tStat), df)

calculateCohensD(mean1, mean2, s1, s2, n1, n2) ==
    LET pooledStandardDeviation ==
            Sqrt(Div(Add(Mul(Sub(n1, Num(1)), Square(s1)),
                         Mul(Sub(n2, Num(1)), Square(s2))),
                     Sub(Add(n1, n2), Num(2))))
    IN  Div(Sub(mean1, mean2), pooledStandardDeviation)

(***************************************************************************)
(* The comparator (src/src/compare.ts).  A report is a record of the       *)
(* properties it has; reading a property it does not have gives undefined. *)
(***************************************************************************)
\* object[property]
Get(object, property) ==
    IF property \in DOMAIN object THEN object[property] ELSE Undefined

\* compare: alpha = 0.05
Alpha == Fin(50)

\* pValue <= alpha; of a p-value the model does not compute, the comparison
\* is kept as such
IsSignificantlyDifferent(pValue) ==
    IF pValue.k = "p" THEN [k |-> "pValue <= alpha", pValue |-> pValue]
    ELSE [k |-> "boolean", v |-> Le(pValue, Alpha)]

\* the ComparisonResult, or the Error calculatePValue throws
compare(a, b) ==
    LET mean1 == ToNumber(Get(a, "mean"))
        mean2 == ToNumber(Get(b, "mean"))
        s1 == ToNumber(Get(a, "stddev"))
        s2 == ToNumber(Get(b, "stddev"))
        n1 == ToNumber(Get(a, "size"))
        n2 == ToNumber(Get(b, "size"))
        ops1 == ToNumber(Get(a, "ops"))
        ops2 == ToNumber(Get(b, "ops"))
        median1 == ToNumber(Get(a, "median"))
        median2 == ToNumber(Get(b, "median"))
        tStarts == calculateTStatistic(mean1, mean2, s1, s2, n1, n2)
        df == calculateDegreesOfFreedom(s1, s2, n1, n2)
        pValue == calculatePValue(tStarts, df)
        diff == Sub(mean2, mean1)
        diffOps == Sub(ops2, ops1)
        moe1 == marginOfError(s1, n1)
        moe2 == marginOfError(s2, n2)
        medianDifference == Sub(median2, median1)
    IN  IF IsError(pValue) THEN pValue
        ELSE [k |-> "ComparisonResult",
              a |-> a,
              b |-> b,
              ts |-> tStarts,
              df |-> df,
              p |-> pValue,
              different |-> IsSignificantlyDifferent(pValue),
              aWins |-> Lt(mean1, mean2),
              dmean |-> diff,
              pmean |-> Mul(Div(diff, mean1), Num(100)),
              dops |-> diffOps,
              pops |-> Mul(Div(diffOps, ops1), Num(100)),
              lci |-> Sub(diff, Add(moe1, moe2)),
              uci |-> Add(diff, Add(moe1, moe2)),
              cohensd |-> calculateCohensD(mean1, mean2, s1, s2, n1, n2),
              sed |-> Sqrt(Add(Div(Square(s1), n1), Div(Square(s2), n2))),
              dmedian |-> medianDifference,
              pmedian |-> Mul(Div(medianDifference, median1), Num(100))]


(***************************************************************************)
(* The validators (src/src/exceptions/validation_exception.ts, lines       *)
(* 26-211) and the exceptions.  A string is a value of its own kind, an    *)
(* array a value that holds its items; an object is a record of its        *)
(* properties.  The messages of the issues are left out.                   *)
(***************************************************************************)
String(text) == [k |-> "string", v |-> text]
Array(items) == [k |-> "array", items |-> items]
Null == [k |-> "null"]

\* typeof value
TypeOf(value) ==
    IF "k" \notin DOMAIN value THEN "object"
    ELSE IF value.k \in {"fin", "nan", "inf"} THEN "number"
    ELSE IF value.k \in {"array", "null"} THEN "object"
    ELSE value.k

\* Array.isArray(value)
IsArray(value) == "k" \in DOMAIN value /\ value.k = "array"

\* typeof report !== 'object' || report === null
NotAnObject(report) == TypeOf(report) # "object" \/ report = Null

\* property in report
In(property, report) ==
    IF "k" \in DOMAIN report THEN FALSE ELSE property \in DOMAIN report

\* report[property] of any value
Property(report, property) ==
    IF In(property, report) THEN report[property] ELSE Undefined

\* requiredProperties.filter((prop) => !(prop in report))
Missing(requiredProperties, report) ==
    SelectSeq(requiredProperties, LAMBDA prop : ~In(prop, report))

\* the issue for the missing properties, if there is one: its field is
\* the names joined, here the names in their order
RequiredIssues(missing) ==
    IF Len(missing) = 0 THEN <<>>
    ELSE <<[field |-> missing, rule |-> "required"]>>

\* the issue for a property that must be a string
StringIssues(report, property) ==
    IF TypeOf(Property(report, property)) # "string"
    THEN <<[field |-> <<property>>, rule |-> "type"]>>
    ELSE <<>>

\* the issue for a property that must be a non-negative number
NumberIssues(report, property) ==
    IF \/ TypeOf(Property(report, property)) # "number"
       \/ Lt(Property(report, property), Zero)
    THEN <<[field |-> <<property>>, rule |-> "type"]>>
    ELSE <<>>

validateBenchmarkReport(report) ==
    IF NotAnObject(report) THEN <<[field |-> <<>>, rule |-> "type"]>>
    ELSE RequiredIssues(Missing(<<"name", "ops", "size", "rme", "stddev",
                                  "me", "mean", "variance", "date">>, report))
         \o StringIssues(report, "name")
         \o NumberIssues(report, "ops")
         \o NumberIssues(report, "size")
         \o NumberIssues(report, "rme")
         \o NumberIssues(report, "stddev")
         \o NumberIssues(report, "me")
         \o NumberIssues(report, "mean")
         \o NumberIssues(report, "variance")
         \o StringIssues(report, "date")

validateSuiteReport(report) ==
    IF NotAnObject(report) THEN <<[field |-> <<>>, rule |-> "type"]>>
    ELSE RequiredIssues(Missing(<<"kind", "name", "date", "results">>, report))
         \o (IF Property(report, "kind") # String("suite")
             THEN <<[field |-> <<"kind">>, rule |-> "value"]>> ELSE <<>>)
         \o StringIssues(report, "name")
         \o StringIssues(report, "date")
         \o (IF ~IsArray(Property(report, "results"))
             THEN <<[field |-> <<"results">>, rule |-> "type"]>> ELSE <<>>)

\* new SuiteValidationException(violations)
SuiteValidationException(violations) ==
    [k |-> "error",
     class |-> "SuiteValidationException",
     message |-> <<"Invalid suite schema.">>,
     code |-> "E_SUITE_VALIDATION_EXCEPTION",
     violations |-> violations]

\* new ReportValidationException(violations)
ReportValidationException(violations) ==
    [k |-> "error",
     class |-> "ReportValidationException",
     message |-> <<"Invalid benchmark report schema.">>,
     code |-> "E_REPORT_VALIDATION_EXCEPTION",
     violations |-> violations]

(***************************************************************************)
(* compareFunction (src/src/compare.ts, lines 146-200).  The options are   *)
(* the caller's filter and sort functions, if any.                         *)
(***************************************************************************)
\* the dates the caller's functions know, oldest first
Dates == <<String("2023-10-27"), String("2023-10-28"), String("2023-10-29")>>

\* the place of the date of a suite report among the dates, 0 if it has none
DateRank(suiteReport) ==
    LET at == {n \in 1..Len(Dates) : Dates[n] = Property(suiteReport, "date")}
    IN  IF at = {} THEN 0 ELSE CHOOSE n \in at : TRUE

\* a filter function of the caller: the reports after the first date
AfterFirstDate(suiteReport) == DateRank(suiteReport) > 1

\* suiteReports.filter(options.filter)
FilterReports(items, filter) ==
    IF filter = "afterFirstDate" THEN SelectSeq(items, AfterFirstDate)
    ELSE items

RECURSIVE InsertNewestFirst(_, _)
\* sorted with report put before the first report that is older
InsertNewestFirst(sorted, report) ==
    IF Len(sorted) = 0 THEN <<report>>
    ELSE IF DateRank(report) > DateRank(sorted[1]) THEN <<report>> \o sorted
    ELSE <<sorted[1]>> \o InsertNewestFirst(Tail(sorted), report)

RECURSIVE NewestFirst(_)
\* a sort function of the caller, applied by the stable Array.prototype.sort
NewestFirst(items) ==
    IF Len(items) = 0 THEN <<>>
    ELSE InsertNewestFirst(NewestFirst(SubSeq(items, 1, Len(items) - 1)),
                           items[Len(items)])

\* [...filteredReports].sort(options.sort)
SortReports(items, sort) ==
    IF sort = "newestFirst" THEN NewestFirst(items) ELSE items

\* an in-place sort of the array that was passed in
suiteReportsSortedInPlace(suiteReports, options) ==
    IF IsArray(suiteReports) /\ options.filter = "none"
    THEN Array(SortReports(suiteReports.items, options.sort))
    ELSE suiteReports

\* the suiteReports array of the caller after the call: lines 159 and 162
\* make new arrays and leave it alone
suiteReportsAfter(suiteReports, options) == suiteReports

RECURSIVE Find(_, _)
\* results.find((r) => r.name === functionName)
Find(items, functionName) ==
    IF Len(items) = 0 THEN Undefined
    ELSE IF Property(items[1], "name") = String(functionName) THEN items[1]
    ELSE Find(Tail(items), functionName)

RECURSIVE FunctionReports(_, _, _)
\* lines 164-181: the reports of the function in the suite reports, as an
\* array, or the exception thrown at the first suite report that is invalid,
\* lacks the function or has an invalid report for it
FunctionReports(functionName, sortedReports, functionReports) ==
    IF Len(sortedReports) = 0 THEN Array(functionReports)
    ELSE LET suiteReport == sortedReports[1]
             suiteIssues == validateSuiteReport(suiteReport)
             report == Find(suiteReport.results.items, functionName)
             reportIssues == validateBenchmarkReport(report)
         IN  IF Len(suiteIssues) > 0
             THEN SuiteValidationException(suiteIssues)
             ELSE IF report = Undefined
                  THEN Error(<<"Function not found in suite report",
                               functionName, suiteReport.name>>)
             ELSE IF Len(reportIssues) > 0
                  THEN ReportValidationException(reportIssues)
             ELSE FunctionReports(functionName, Tail(sortedReports),
                                  Append(functionReports, report))

\* an inner loop that starts at i itself
FirstPartnerItself(i) == i

\* line 188: let j = i + 1
FirstPartner(i) == i + 1

RECURSIVE PairwiseFrom(_, _, _, _)
\* lines 187-197: the comparisons from the pair (i, j) on, added to
\* comparisonResults, or the Error the first failing compare throws
PairwiseFrom(functionReports, i, j, comparisonResults) ==
    IF i > Len(functionReports) THEN Array(comparisonResults)
    ELSE IF j > Len(functionReports)
         THEN PairwiseFrom(functionReports, i + 1, FirstPartner(i + 1),
                           comparisonResults)
    ELSE LET result == compare(functionReports[i], functionReports[j])
         IN  IF IsError(result) THEN result
             ELSE PairwiseFrom(functionReports, i, j + 1,
                               Append(comparisonResults, result))

\* a check that is content with one report
NoReports(functionReports) == Len(functionReports) < 1

\* line 183
TooFewReports(functionReports) == Len(functionReports) < 2

\* the array of ComparisonResults returned, or the exception thrown
compareFunction(functionName, suiteReports, options) ==
    IF ~IsArray(suiteReports)
    THEN Error(<<"Invalid input: suiteReports must be an array.">>)
    ELSE LET filteredReports == FilterReports(suiteReports.items, options.filter)
             sortedReports == SortReports(filteredReports, options.sort)
             functionReports == FunctionReports(functionName, sortedReports, <<>>)
         IN  IF IsError(functionReports) THEN functionReports
             ELSE IF TooFewReports(functionReports.items)
                  THEN Error(<<"At least two valid reports are required",
                               functionName>>)
             ELSE PairwiseFrom(functionReports.items, 1, FirstPartner(1), <<>>)

(***************************************************************************)
(* The Benchmarker (src/src/benchmark.ts): its options, the values the     *)
(* timed function can produce, and the state of one Benchmarker.           *)
(***************************************************************************)
WarmupIterationsOptions == {0, 1}
InnerIterationsOptions == {0, 1, 2}
MaxInnerIterationsOptions == {1, 3}
TimeThresholdOptions == {1}
MinSamplesOptions == {0, 10}
MaxIterationsOptions == 0..MaxIterationsOption
MaxExecutionTimeOptions == {1, 10000}

\* the BenchmarkOptions a Benchmarker is constructed with
BenchmarkOptions ==
    [warmupIterations : WarmupIterationsOptions,
     innerIterations : InnerIterationsOptions,
     maxInnerIterations : MaxInnerIterationsOptions,
     timeThreshold : TimeThresholdOptions,
     minSamples : MinSamplesOptions,
     maxIterations : MaxIterationsOptions,
     maxExecutionTime : MaxExecutionTimeOptions]

\* the wall time, in milliseconds, one invocation of the timed function takes
Durations == {0, 1}
\* the values the timed function can throw or reject with
Errors == {"Error1", "Error2"}
NoError == "none"
NoReport == [kind |-> "none"]
\* no call of the comparator or of the kernel was made
NoCall == [fn |-> "none"]
NotReturned == [kind |-> "none"]

VARIABLES
    opts,                     \* the options given to the constructor
    innerIterations,          \* this.innerIterations
    results,                  \* this.results
    mean,                     \* this.#mean
    pc,                       \* where run() is: idle, warmup, calibrate
                              \* (before a probe batch), probe (in one),
                              \* sample, filter, resolved, rejected
    awaiting,                 \* an invocation of this.fn is being awaited
    i,                        \* the loop variable i of run()
    j,                        \* the loop variable j of run()
    adaptiveInnerIterations,  \* the local of that name in run()
    batchTime,                \* performance.now() - startTime
    runTime,                  \* performance.now() - overallStartTime
    runError,                 \* the value run() rejected with
    warnings,                 \* the warnings logged since run() was called
    report,                   \* the report getReport() returned last
    runs,                     \* the number of run() calls so far
    invocations,              \* invocations of this.fn in this run()
    thrown,                   \* the value this.fn threw in this run()
    failedAt,                 \* the invocation of this.fn that threw
    failedIn,                 \* the phase of run() it threw in
    probes,                   \* calibration batches completed in this run()
    args,                     \* the arguments of a call of the comparator
                              \* or of the kernel, as the call leaves them
    returned,                 \* what that call returned or threw
    benchmarks,               \* Suite: this.benchmarks
    reports,                  \* Suite: this.reports
    reporters,                \* Suite: this.reporters
    benchmarkSetup,           \* Suite: this.benchmarkSetup
    pendingSetup,             \* Suite: this.pendingSetup
    groupBenchmarkSetup,      \* Suite: the keys of this.groupBenchmarkSetup
    groupBenchmarkTeardown,   \* Suite: the keys of
                              \* this.groupBenchmarkTeardown
    groupSuiteSetup,          \* Suite: the keys of this.groupSuiteSetup
    groupSuiteTeardown,       \* Suite: the keys of this.groupSuiteTeardown
    groupIndex,               \* Suite: this.groupIndex
    groupGlobalSetupValues,   \* Suite: this.groupGlobalSetupValues
    suitePc,                  \* where Suite.run() is: idle, loop (at the
                              \* head of the for loop), afterAll, resolved,
                              \* rejected; threw after a call other than
                              \* run() threw
    benchmark,                \* the place in this.benchmarks of the loop
                              \* variable benchmark of Suite.run()
    calls,                    \* the calls the last Suite.run() made of the
                              \* caller's functions, listeners and
                              \* reporters, in their order
    settled,                  \* what Suite.run() resolved or rejected with,
                              \* or what another call of the Suite threw
    suiteRuns,                \* Suite: the number of run() calls so far
    initOptions,              \* SuiteConfig: this.initOptions
    configOptions,            \* SuiteConfig: this.options
    configFile,               \* what the configuration file holds
    configLoaded,             \* Suite: this.configLoaded
    configLoads,              \* the number of SuiteConfig.load() calls
    loadPc,                   \* where each call of Suite.load() is: none,
                              \* loading (awaiting this.options.load()),
                              \* resolved, running (run() has gone on
                              \* after its load() and made a Benchmarker)
    logged,                   \* SuiteConfig: the errors given to the logger
    benchmarkOptions          \* the options add() was given for the
                              \* benchmark that run() makes a Benchmarker for

configVars ==
    <<initOptions, configOptions, configFile, configLoaded, configLoads,
      loadPc, logged, benchmarkOptions>>

queueVars ==
    <<benchmarks, reports, reporters, benchmarkSetup, pendingSetup,
      groupBenchmarkSetup, groupBenchmarkTeardown, groupSuiteSetup,
      groupSuiteTeardown, groupIndex, groupGlobalSetupValues, suitePc,
      benchmark, calls, settled, suiteRuns>>

suiteVars == <<queueVars, configVars>>

vars == <<suiteVars, args, returned,
          opts, innerIterations, results, mean, pc, awaiting, i, j,
          adaptiveInnerIterations, batchTime, runTime, runError, warnings,
          report, runs, invocations, thrown, failedAt, failedIn, probes>>

\* the value of an absent property, of a variable that was not assigned
Absent == "undefined"

\* new Map()
EmptyMap == [key \in {} |-> Absent]

\* an object without properties, as the options object {}
NoKeys == [key \in {} |-> 0]

\* no options object: the options parameter of add() was left out
NoOptions == [k |-> "undefined"]

\* no configuration file is found, or the files cannot be read at all
NoFile == [k |-> "no file"]

\* the configuration file is found and reading it fails
Unreadable == [k |-> "unreadable"]

\* the callers of Suite.load(), directly or through Suite.run()
Callers == {"first", "second"}

\* a Suite made without options, where no configuration file is found
NoOptionsGiven ==
    /\ initOptions = NoKeys
    /\ configOptions = NoKeys
    /\ configFile = NoFile
    /\ benchmarkOptions = NoOptions

\* the fields of a Suite the constructor made, lines 80-158 of suite.ts
SuiteFields ==
    /\ benchmarks = <<>>
    /\ reports = <<>>
    /\ reporters = [timing \in {"after-each", "after-all"} |-> <<>>]
    /\ benchmarkSetup = Absent
    /\ pendingSetup = Absent
    /\ groupBenchmarkSetup = {}
    /\ groupBenchmarkTeardown = {}
    /\ groupSuiteSetup = {}
    /\ groupSuiteTeardown = {}
    /\ groupIndex = EmptyMap
    /\ groupGlobalSetupValues = EmptyMap
    /\ suitePc = "idle"
    /\ benchmark = 0
    /\ calls = <<>>
    /\ settled = NotReturned
    /\ suiteRuns = 0
    /\ configLoaded = FALSE
    /\ configLoads = 0
    /\ loadPc = [c \in Callers |-> "none"]
    /\ logged = <<>>

SuiteConstructed == SuiteFields /\ NoOptionsGiven

\* the fields of a Benchmarker the constructor made with the options opts
Constructed ==
    /\ innerIterations = opts.innerIterations
    /\ results = <<>>
    /\ mean = Undefined
    /\ pc = "idle"
    /\ awaiting = FALSE
    /\ i = 0
    /\ j = 0
    /\ adaptiveInnerIterations = 0
    /\ batchTime = 0
    /\ runTime = 0
    /\ runError = NoError
    /\ warnings = {}
    /\ report = NoReport
    /\ runs = 0
    /\ invocations = 0
    /\ thrown = NoError
    /\ failedAt = 0
    /\ failedIn = "none"
    /\ probes = 0

\* the constructor
Init ==
    /\ args = NoCall
    /\ returned = NotReturned
    /\ SuiteConstructed
    /\ opts \in BenchmarkOptions
    /\ Constructed

\* run() is not in progress
Settled == pc \in {"idle", "resolved", "rejected"}

(***************************************************************************)
(* run(): the warm-up phase, lines 144-160.                                *)
(***************************************************************************)
\* run() is called: lines 145-150
Run ==
    /\ Settled
    /\ runs < MaxRuns
    /\ runs' = runs + 1
    /\ results' = <<>>
    /\ pc' = "warmup"
    /\ i' = 0
    /\ runTime' = 0
    /\ runError' = NoError
    /\ warnings' = {}
    /\ report' = NoReport
    /\ invocations' = 0
    /\ thrown' = NoError
    /\ failedAt' = 0
    /\ failedIn' = "none"
    /\ probes' = 0
    /\ UNCHANGED <<suiteVars, args, returned, opts, innerIterations, mean,
                   awaiting, j, adaptiveInnerIterations, batchTime>>

\* this.fn(passValue) is called without awaiting the call before it
InvokeNotAwaited ==
    /\ awaiting' = TRUE
    /\ invocations' = invocations + 1
    /\ UNCHANGED <<suiteVars, args, returned,
                   opts, innerIterations, results, mean, pc, i, j,
                   adaptiveInnerIterations, batchTime, runTime, runError,
                   warnings, report, runs, thrown, failedAt, failedIn, probes>>

\* this.fn(passValue) is called and its result awaited
Invoke ==
    /\ ~awaiting
    /\ awaiting' = TRUE
    /\ invocations' = invocations + 1
    /\ UNCHANGED <<suiteVars, args, returned,
                   opts, innerIterations, results, mean, pc, i, j,
                   adaptiveInnerIterations, batchTime, runTime, runError,
                   warnings, report, runs, thrown, failedAt, failedIn, probes>>

\* a catch block that throws an error of its own instead
RethrownAsNew(error) == "Error1"

\* the value a catch block of run() throws for the error it caught
Rethrown(error) == error

\* the awaited invocation throws error, the catch block logs and rethrows:
\* run() rejects and its locals are gone
Throws(error) ==
    /\ awaiting
    /\ awaiting' = FALSE
    /\ thrown' = error
    /\ failedAt' = invocations
    /\ failedIn' = pc
    /\ runError' = Rethrown(error)
    /\ pc' = "rejected"
    /\ i' = 0
    /\ j' = 0
    /\ adaptiveInnerIterations' = 0
    /\ batchTime' = 0
    /\ runTime' = 0
    /\ UNCHANGED <<suiteVars, args, returned,
                   opts, innerIterations, results, mean, warnings, report,
                   runs, invocations, probes>>

\* line 153
WarmupInvoke ==
    /\ pc = "warmup"
    /\ i < opts.warmupIterations
    /\ Invoke

\* lines 153-158
WarmupSettle ==
    /\ pc = "warmup"
    /\ awaiting
    /\ \/ \E duration \in Durations :
            /\ awaiting' = FALSE
            /\ i' = i + 1
            /\ runTime' = runTime + duration
            /\ UNCHANGED <<suiteVars, args, returned,
                           opts, innerIterations, results, mean, pc, j,
                           adaptiveInnerIterations, batchTime, runError,
                           warnings, report, runs, invocations, thrown,
                           failedAt, failedIn, probes>>
       \/ \E error \in Errors : Throws(error)

\* a warm-up loop that ends one invocation early
WarmupEndEarly ==
    /\ pc = "warmup"
    /\ ~awaiting
    /\ i >= opts.warmupIterations - 1
    /\ pc' = "calibrate"
    /\ adaptiveInnerIterations' = innerIterations
    /\ i' = 0
    /\ UNCHANGED <<suiteVars, args, returned,
                   opts, innerIterations, results, mean, awaiting, j,
                   batchTime, runTime, runError, warnings, report, runs,
                   invocations, thrown, failedAt, failedIn, probes>>

\* lines 160-165: the warm-up loop ends, calibration starts
WarmupEnd ==
    /\ pc = "warmup"
    /\ ~awaiting
    /\ i >= opts.warmupIterations
    /\ pc' = "calibrate"
    /\ adaptiveInnerIterations' = innerIterations
    /\ i' = 0
    /\ UNCHANGED <<suiteVars, args, returned,
                   opts, innerIterations, results, mean, awaiting, j,
                   batchTime, runTime, runError, warnings, report, runs,
                   invocations, thrown, failedAt, failedIn, probes>>

(***************************************************************************)
(* run(): the adaptive inner iterations, lines 162-186.                    *)
(***************************************************************************)
\* lines 166-168: a probe batch starts
CalibrateBatchStart ==
    /\ pc = "calibrate"
    /\ pc' = "probe"
    /\ j' = 0
    /\ batchTime' = 0
    /\ UNCHANGED <<suiteVars, args, returned,
                   opts, innerIterations, results, mean, awaiting, i,
                   adaptiveInnerIterations, runTime, runError, warnings,
                   report, runs, invocations, thrown, failedAt, failedIn,
                   probes>>

\* line 170
CalibrateInvoke ==
    /\ pc = "probe"
    /\ j < adaptiveInnerIterations
    /\ Invoke

\* lines 168-175
CalibrateSettle ==
    /\ pc = "probe"
    /\ awaiting
    /\ \/ \E duration \in Durations :
            /\ awaiting' = FALSE
            /\ j' = j + 1
            /\ batchTime' = batchTime + duration
            /\ runTime' = runTime + duration
            /\ UNCHANGED <<suiteVars, args, returned,
                           opts, innerIterations, results, mean, pc, i,
                           adaptiveInnerIterations, runError, warnings,
                           report, runs, invocations, thrown, failedAt, failedIn,
                           probes>>
       \/ \E error \in Errors : Throws(error)

\* line 178: the batch was too fast and the count may still grow
TooFast(totalTime, count) ==
    totalTime < opts.timeThreshold /\ count < opts.maxInnerIterations

\* lines 178-183: the count after a batch that took totalTime
Adapted(totalTime, count) ==
    IF TooFast(totalTime, count) THEN count * 2 ELSE count

\* lines 176-191: a probe batch ends; the do-while loop goes on or ends,
\* and then the main loop starts its first batch or has none to run
CalibrateBatchEnd ==
    /\ pc = "probe"
    /\ ~awaiting
    /\ j >= adaptiveInnerIterations
    /\ LET totalTime == batchTime
           count == Adapted(totalTime, adaptiveInnerIterations)
       IN  /\ adaptiveInnerIterations' = count
           /\ probes' = (IF probes < MaxProbes THEN probes + 1 ELSE probes)
           /\ j' = 0
           /\ batchTime' = 0
           /\ IF TooFast(totalTime, count)
              THEN /\ pc' = "calibrate"
                   /\ UNCHANGED innerIterations
              ELSE /\ innerIterations' = count
                   /\ pc' = (IF 0 < opts.maxIterations
                             THEN "sample" ELSE "filter")
    /\ UNCHANGED <<suiteVars, args, returned,
                   opts, results, mean, awaiting, i, runTime, runError,
                   warnings, report, runs, invocations, thrown, failedAt, failedIn>>

(***************************************************************************)
(* run(): the main benchmark loop, lines 188-212.                          *)
(***************************************************************************)
\* line 194
SampleInvoke ==
    /\ pc = "sample"
    /\ j < innerIterations
    /\ Invoke

\* lines 192-199
SampleSettle ==
    /\ pc = "sample"
    /\ awaiting
    /\ \/ \E duration \in Durations :
            /\ awaiting' = FALSE
            /\ j' = j + 1
            /\ batchTime' = batchTime + duration
            /\ runTime' = runTime + duration
            /\ UNCHANGED <<suiteVars, args, returned,
                           opts, innerIterations, results, mean, pc, i,
                           adaptiveInnerIterations, runError, warnings,
                           report, runs, invocations, thrown, failedAt, failedIn,
                           probes>>
       \/ \E error \in Errors : Throws(error)

\* line 201
IterationTime(elapsed, count) == Div(Num(elapsed), Num(count))

\* a time budget that is spent as soon as it is reached
ExecutionTimeReached(elapsed) == elapsed >= opts.maxExecutionTime

\* line 206: elapsed is performance.now() - overallStartTime
ExecutionTimeExceeded(elapsed) == elapsed > opts.maxExecutionTime

\* lines 200-212: a sample is recorded and the time budget checked
SampleBatchEnd ==
    /\ pc = "sample"
    /\ ~awaiting
    /\ j >= innerIterations
    /\ results' = Append(results, IterationTime(batchTime, innerIterations))
    /\ j' = 0
    /\ batchTime' = 0
    /\ IF ExecutionTimeExceeded(runTime)
       THEN /\ warnings' = warnings \cup {"maxExecutionTimeExceeded"}
            /\ pc' = "filter"
            /\ i' = i
       ELSE /\ warnings' = warnings
            /\ pc' = (IF i + 1 < opts.maxIterations THEN "sample" ELSE "filter")
            /\ i' = i + 1
    /\ UNCHANGED <<suiteVars, args, returned, opts, innerIterations, mean,
                   awaiting, adaptiveInnerIterations, runTime, runError,
                   report, runs, invocations, thrown, failedAt, failedIn,
                   probes>>

(***************************************************************************)
(* removeOutliers(), lines 232-261, and the end of run(), lines 213-222.   *)
(***************************************************************************)
\* lines 240-253: the samples kept
Filtered(samples) ==
    LET sortedResults == SortAscending(samples)
        q1 == getPercentile(sortedResults, 25)
        q3 == getPercentile(sortedResults, 75)
        iqr == Sub(q3, q1)
        lowerBound == Sub(q1, Mul(Div(Num(15), Num(10)), iqr))
        upperBound == Add(q3, Mul(Div(Num(15), Num(10)), iqr))
    IN  SelectSeq(sortedResults,
                  LAMBDA value : Ge(value, lowerBound) /\ Le(value, upperBound))

\* a filter that does not look at the number of samples
removeOutliersAlways(samples, minSamples) == Filtered(samples)

\* this.results after removeOutliers()
removeOutliers(samples, minSamples) ==
    IF Len(samples) < minSamples THEN samples ELSE Filtered(samples)

\* the warnings removeOutliers() logs
removeOutliersWarnings(samples, minSamples) ==
    IF Len(samples) < minSamples THEN {"tooFewSamples"}
    ELSE IF Len(Filtered(samples)) < minSamples
         THEN {"tooFewSamplesAfterRemoval"}
    ELSE {}

\* lines 213-222: the main loop is over, run() resolves
Complete ==
    /\ pc = "filter"
    /\ results' = removeOutliers(results, opts.minSamples)
    /\ warnings' = warnings
                   \cup (IF Len(results) = 0 THEN {"noIterationCompleted"} ELSE {})
                   \cup removeOutliersWarnings(results, opts.minSamples)
    /\ pc' = "resolved"
    /\ i' = 0
    /\ j' = 0
    /\ adaptiveInnerIterations' = 0
    /\ batchTime' = 0
    /\ runTime' = 0
    /\ UNCHANGED <<suiteVars, args, returned,
                   opts, innerIterations, mean, awaiting, runError, report,
                   runs, invocations, thrown, failedAt, failedIn, probes>>

(***************************************************************************)
(* getReport(), lines 443-459, and the getters it calls, lines 263-436.    *)
(* A getter takes the samples and the cached mean it reads.  The name and  *)
(* the date of a report are left out.                                      *)
(***************************************************************************)
\* lines 281-297: the value returned
getAverageTime(samples, cached) ==
    IF Len(samples) = 0 THEN Zero
    ELSE IF Truthy(cached) THEN cached
    ELSE arithmeticMean(samples)

\* lines 281-297: this.#mean afterwards
CachedMean(samples, cached) ==
    IF Len(samples) = 0 \/ Truthy(cached) THEN cached
    ELSE arithmeticMean(samples)

\* lines 304-316
getStandardDeviation(samples) ==
    IF Len(samples) = 0 THEN Zero ELSE sampleStandardDeviation(samples)

\* getOperationsPerSecond() without its guard for an empty sample set
getOperationsPerSecondUnguarded(samples, cached) ==
    Div(Num(MillisecondsPerSecond), getAverageTime(samples, cached))

\* lines 323-331
getOperationsPerSecond(samples, cached) ==
    IF Len(samples) = 0 THEN Zero
    ELSE Div(Num(MillisecondsPerSecond), getAverageTime(samples, cached))

\* lines 343-360
getRME(samples, cached) ==
    IF Len(samples) = 0 THEN Zero
    ELSE relativeMarginOfError(getAverageTime(samples, cached),
                               getStandardDeviation(samples),
                               Num(Len(samples)))

\* lines 394-399
getMarginOfError(samples) ==
    IF Len(samples) = 0 THEN Zero
    ELSE marginOfError(getStandardDeviation(samples), Num(Len(samples)))

\* lines 406-411
getStandardErrorOfTheMean(samples) ==
    IF Len(samples) = 0 THEN Zero
    ELSE Div(getStandardDeviation(samples), Sqrt(Num(Len(samples))))

\* lines 418-423
getSampleVariance(samples) ==
    IF Len(samples) = 0 THEN Zero ELSE sampleVariance(samples)

\* lines 430-436
getMedian(samples) ==
    IF Len(samples) = 0 THEN Zero ELSE median(samples)

\* lines 443-459: the report returned
getReport(samples, cached) ==
    [kind |-> "benchmark",
     ops |-> getOperationsPerSecond(samples, cached),
     rme |-> getRME(samples, cached),
     stddev |-> getStandardDeviation(samples),
     mean |-> getAverageTime(samples, CachedMean(samples, cached)),
     me |-> getMarginOfError(samples),
     sample |-> samples,
     sem |-> getStandardErrorOfTheMean(samples),
     variance |-> getSampleVariance(samples),
     size |-> Len(samples),
     median |-> getMedian(samples)]

\* the warnings the getters log: lines 290-294, 310-314, 349-358
getReportWarnings(samples, cached) ==
    IF Len(samples) = 0 THEN {}
    ELSE (IF ~Truthy(cached) /\ arithmeticMean(samples) = Zero
          THEN {"meanIsZero"} ELSE {})
         \cup (IF getStandardDeviation(samples) = Zero
               THEN {"stddevIsZero"} ELSE {})
         \cup (IF getAverageTime(samples, cached) = Zero
               THEN {"rmeIsZero"} ELSE {})
         \cup (IF Gt(getRME(samples, cached),
                     Div(Num(HighRmePercent), Num(100)))
               THEN {"rmeIsHigh"} ELSE {})

\* getReport() is called while no run() is in progress
GetReport ==
    /\ Settled
    /\ report' = getReport(results, mean)
    /\ mean' = CachedMean(results, mean)
    /\ warnings' = warnings \cup getReportWarnings(results, mean)
    /\ UNCHANGED <<suiteVars, args, returned,
                   opts, innerIterations, results, pc, awaiting, i, j,
                   adaptiveInnerIterations, batchTime, runTime, runError,
                   runs, invocations, thrown, failedAt, failedIn, probes>>

(***************************************************************************)
(* The specifications.                                                     *)
(***************************************************************************)
\* the steps run() takes by itself once it was called
RunStep ==
    \/ WarmupInvoke
    \/ WarmupSettle
    \/ WarmupEnd
    \/ CalibrateBatchStart
    \/ CalibrateInvoke
    \/ CalibrateSettle
    \/ CalibrateBatchEnd
    \/ SampleInvoke
    \/ SampleSettle
    \/ SampleBatchEnd
    \/ Complete

Next ==
    \/ Run
    \/ GetReport
    \/ WarmupInvoke
    \/ WarmupSettle
    \/ WarmupEnd
    \/ CalibrateBatchStart
    \/ CalibrateInvoke
    \/ CalibrateSettle
    \/ CalibrateBatchEnd
    \/ SampleInvoke
    \/ SampleSettle
    \/ SampleBatchEnd
    \/ Complete

Spec == Init /\ [][Next]_vars

\* run() goes on as long as it can: every invocation of the timed function
\* settles and the event loop resumes run() after each await
FairSpec == Spec /\ WF_vars(RunStep)

(***************************************************************************)
(* The comparator and the kernel on their own: a call is made with some    *)
(* arguments and returns or throws.  The Benchmarker is one made with the  *)
(* default options and never run.                                          *)
(***************************************************************************)
\* the report a Benchmarker gives for samples of that mean, deviation and
\* count: lines 443-459 of benchmark.ts
BenchmarkReport(name, date, mean1, stddev, size) ==
    [kind |-> String("benchmark"),
     name |-> String(name),
     date |-> date,
     ops |-> Div(Num(MillisecondsPerSecond), mean1),
     size |-> size,
     rme |-> relativeMarginOfError(mean1, stddev, size),
     stddev |-> stddev,
     me |-> marginOfError(stddev, size),
     mean |-> mean1,
     variance |-> Square(stddev),
     median |-> mean1]

\* new SuiteReport: a suite report of that name and date with those results
SuiteReport(name, date, benchmarkReports) ==
    [kind |-> String("suite"),
     name |-> String(name),
     date |-> date,
     results |-> Array(benchmarkReports)]

\* object without property
Without(object, property) ==
    [key \in DOMAIN object \ {property} |-> object[key]]

\* the reports given to compare
Means == {Num(0), Num(1), Num(2)}
Deviations == {Num(0), Num(1), NaN}
Sizes == {Num(n) : n \in 0..MaxSize}
Reports ==
    {BenchmarkReport("My Function", Dates[1], mean1, stddev, size) :
        mean1 \in Means, stddev \in Deviations, size \in Sizes}

\* the reports and suite reports given to compareFunction, after those of
\* the tests (src/unnamed/part_007, lines 466-609)
ReportA == BenchmarkReport("My Function", Dates[1], Num(1), Num(1), Num(2))
ReportB == BenchmarkReport("My Function", Dates[2], Num(2), Num(1), Num(2))
ReportC == BenchmarkReport("Another Function", Dates[3], Num(1), Num(1), Num(2))
ReportD == BenchmarkReport("My Function", Dates[3], Num(2), Num(1), Num(3))
ReportZero == BenchmarkReport("My Function", Dates[1], Num(1), Num(0), Num(2))
\* ops is not a number
InvalidReport == [ReportA EXCEPT !.ops = String("invalid")]
\* a negative deviation and no mean
InvalidOtherReport ==
    Without([ReportC EXCEPT !.stddev = Neg(Num(1))], "mean")

SuiteReport1 == SuiteReport("Suite 1", Dates[1], <<ReportA>>)
SuiteReport2 == SuiteReport("Suite 2", Dates[2], <<ReportB>>)
SuiteReport3 == SuiteReport("Suite 3", Dates[3], <<ReportC>>)
SuiteReport4 == SuiteReport("Suite 4", Dates[3], <<InvalidOtherReport, ReportD>>)
SuiteReportZero == SuiteReport("Suite 0", Dates[1], <<ReportZero>>)
\* name is not a string
InvalidSuiteReport == [SuiteReport1 EXCEPT !.name = Num(123)]
SuiteReportInvalidReport == SuiteReport("Suite 1", Dates[1], <<InvalidReport>>)

SuiteReports ==
    {SuiteReport1, SuiteReport2, SuiteReport3, SuiteReport4, SuiteReportZero,
     InvalidSuiteReport, SuiteReportInvalidReport}

\* the CompareOptions: the caller's filter and sort function, if any
CompareOptions ==
    [filter : {"none", "afterFirstDate"}, sort : {"none", "newestFirst"}]

\* the calls of compare
CompareCalls == [fn : {"compare"}, a : Reports, b : Reports]

\* the calls of compareFunction
CompareFunctionCalls ==
    [fn : {"compareFunction"},
     functionName : {"My Function", "Another Function"},
     suiteReports :
         {Array(items) :
             items \in UNION {[1..n -> SuiteReports] : n \in 0..MaxSuiteReports}},
     options : CompareOptions]

\* the calls of the kernel
KernelCalls ==
    [fn : {"calculateDegreesOfFreedom"},
     s1 : {Num(0), Num(1), Num(2)}, s2 : {Num(0), Num(1), Num(2)},
     n1 : Sizes, n2 : Sizes]
    \cup
    [fn : {"calculateCohensD"},
     mean1 : {Num(1), Num(2)}, mean2 : {Num(1), Num(2)},
     s1 : {Num(0), Num(1)}, s2 : {Num(0), Num(1)},
     n1 : Sizes, n2 : Sizes]
    \cup
    [fn : {"calculatePValue"},
     tStat : {NaN, NegInfinity, PosInfinity, Neg(Num(2)), Num(0), Num(2)},
     df : {NaN, NegInfinity, PosInfinity, Neg(Num(1)), Num(0), Num(1), Num(2)}]

CompareInit ==
    /\ args \in CompareCalls \cup CompareFunctionCalls \cup KernelCalls
    /\ returned = NotReturned
    /\ SuiteConstructed
    /\ opts = [warmupIterations |-> 10,
               innerIterations |-> 10,
               maxInnerIterations |-> 10000,
               timeThreshold |-> 1,
               minSamples |-> 10,
               maxIterations |-> 100,
               maxExecutionTime |-> 10000]
    /\ Constructed

\* what a call that evaluated to value did: it threw the error or returned
Outcome(value) ==
    IF IsError(value) THEN [kind |-> "thrown", error |-> value]
    ELSE [kind |-> "returned", value |-> value]

benchmarkerVars ==
    <<opts, innerIterations, results, mean, pc, awaiting, i, j,
      adaptiveInnerIterations, batchTime, runTime, runError, warnings,
      report, runs, invocations, thrown, failedAt, failedIn, probes>>

\* compare(a, b) is called; it reads its arguments only
Compare ==
    /\ args.fn = "compare"
    /\ returned' = Outcome(compare(args.a, args.b))
    /\ UNCHANGED <<suiteVars, args, benchmarkerVars>>

\* compareFunction(functionName, suiteReports, options) is called
CompareFunction ==
    /\ args.fn = "compareFunction"
    /\ returned' = Outcome(compareFunction(args.functionName,
                                           args.suiteReports, args.options))
    /\ args' = [args EXCEPT !.suiteReports =
                                suiteReportsAfter(args.suiteReports,
                                                  args.options)]
    /\ UNCHANGED <<suiteVars, benchmarkerVars>>

CalculateDegreesOfFreedom ==
    /\ args.fn = "calculateDegreesOfFreedom"
    /\ returned' = Outcome(calculateDegreesOfFreedom(args.s1, args.s2,
                                                     args.n1, args.n2))
    /\ UNCHANGED <<suiteVars, args, benchmarkerVars>>

CalculateCohensD ==
    /\ args.fn = "calculateCohensD"
    /\ returned' = Outcome(calculateCohensD(args.mean1, args.mean2, args.s1,
                                            args.s2, args.n1, args.n2))
    /\ UNCHANGED <<suiteVars, args, benchmarkerVars>>

CalculatePValue ==
    /\ args.fn = "calculatePValue"
    /\ returned' = Outcome(calculatePValue(args.tStat, args.df))
    /\ UNCHANGED <<suiteVars, args, benchmarkerVars>>

CompareNext ==
    \/ Compare
    \/ CompareFunction
    \/ CalculateDegreesOfFreedom
    \/ CalculateCohensD
    \/ CalculatePValue

CompareSpec == CompareInit /\ [][CompareNext]_vars

(***************************************************************************)
(* The Suite (src/src/suite.ts).  The caller names its benchmarks in the   *)
(* order it adds them, has one setup function, and registers each hook and *)
(* each reporter once at most.  A function of the caller returns a value   *)
(* that tells which function it was and what it was called with.  The      *)
(* Benchmarker that run() makes for a benchmark calls the benchmark        *)
(* function, which returns every time or throws.  A call other than run()  *)
(* that throws ends the caller's script.                                   *)
(***************************************************************************)
\* the names of the benchmarks, in the order the caller adds them
Names == <<"Benchmark 1", "Benchmark 2", "Benchmark 3">>

\* the groups of the caller
Groups == {"Group 1", "Group 2"}

\* the setup function of the caller
SetupFunction == "benchmarkSetup"

\* the reporters of the caller and the timing it registers each with
Reporters ==
    {[reporter |-> "afterEachReporter", timing |-> "after-each"],
     [reporter |-> "afterAllReporter", timing |-> "after-all"]}

\* the hooks the caller registers: all four for the first group, the suite
\* setup and teardown for the second
Hooks ==
    {[hook |-> hook, groupName |-> "Group 1"] :
        hook \in {"groupSuiteSetup", "groupBenchmarkSetup",
                  "groupBenchmarkTeardown", "groupSuiteTeardown"}}
    \cup
    {[hook |-> hook, groupName |-> "Group 2"] :
        hook \in {"groupSuiteSetup", "groupSuiteTeardown"}}

\* what the function by of a group or benchmark returns when called with arg
Value(by, of, arg) == [k |-> "value", by |-> by, of |-> of, arg |-> arg]

\* the call of a function, the dispatch of an event to a listener or the
\* call of a reporter's run(), for the benchmark at that place (0: for none)
Call(what, of, at, arg) == [what |-> what, of |-> of, at |-> at, arg |-> arg]

\* map.get(key)
MapGet(map, key) == IF key \in DOMAIN map THEN map[key] ELSE Undefined

\* map.set(key, value)
MapSet(map, key, value) ==
    [k \in DOMAIN map \cup {key} |-> IF k = key THEN value ELSE map[k]]

\* a call other than run() throws
SuiteThrows(error) ==
    /\ suitePc' = "threw"
    /\ settled' = [kind |-> "thrown", error |-> error]

\* an entry that takes the setup function of the suite when none is pending
EntryWithSuiteSetup(name, groupName) ==
    [name |-> name, group |-> groupName,
     setup |-> IF pendingSetup # Absent THEN pendingSetup ELSE benchmarkSetup]

\* lines 241-246 and 266-271: the entry with the pending setup, if any
Entry(name, groupName) ==
    [name |-> name, group |-> groupName, setup |-> pendingSetup]

\* a check that looks among the benchmarks of no group only
NameTakenOutsideGroups(name) ==
    \E n \in 1..Len(benchmarks) :
        benchmarks[n].name = name /\ benchmarks[n].group = Absent

\* line 237: this.benchmarks.some((b) => b.name === name)
NameTaken(name) == \E n \in 1..Len(benchmarks) : benchmarks[n].name = name

\* add(name, fn)
SuiteAdd(name) ==
    /\ suitePc = "idle"
    /\ IF NameTaken(name)
       THEN /\ SuiteThrows(Error(<<"Benchmark with name already exists.", name>>))
            /\ UNCHANGED <<benchmarks, pendingSetup>>
       ELSE /\ benchmarks' = Append(benchmarks, Entry(name, Absent))
            /\ pendingSetup' = Absent
            /\ UNCHANGED <<suitePc, settled>>
    /\ UNCHANGED <<reports, reporters, benchmarkSetup, groupBenchmarkSetup,
                   groupBenchmarkTeardown, groupSuiteSetup,
                   groupSuiteTeardown, groupIndex, groupGlobalSetupValues,
                   benchmark, calls, args, returned, benchmarkerVars,
                   suiteRuns, configVars>>

\* group(groupName, name, fn); an entry is told from the others by its
\* place in the queue
SuiteGroup(groupName, name) ==
    /\ suitePc = "idle"
    /\ IF \E n \in 1..Len(benchmarks) :
              benchmarks[n].name = name /\ benchmarks[n].group = groupName
       THEN /\ SuiteThrows(Error(<<"Benchmark with name already exists in group.",
                              name, groupName>>))
            /\ UNCHANGED <<benchmarks, pendingSetup, groupIndex>>
       ELSE LET entry == Len(benchmarks) + 1
                indexEntry == IF groupName \in DOMAIN groupIndex
                              THEN groupIndex[groupName]
                              ELSE [first |-> entry, last |-> entry]
            IN  /\ benchmarks' = Append(benchmarks, Entry(name, groupName))
                /\ pendingSetup' = Absent
                /\ groupIndex' = MapSet(groupIndex, groupName,
                                        [indexEntry EXCEPT !.last = entry])
                /\ UNCHANGED <<suitePc, settled>>
    /\ UNCHANGED <<reports, reporters, benchmarkSetup, groupBenchmarkSetup,
                   groupBenchmarkTeardown, groupSuiteSetup,
                   groupSuiteTeardown, groupGlobalSetupValues,
                   benchmark, calls, args, returned, benchmarkerVars,
                   suiteRuns, configVars>>

\* addReporter(reporter, timing)
AddReporter(reporter, timing) ==
    /\ suitePc = "idle"
    /\ IF timing # "after-each" /\ timing # "after-all"
       THEN /\ SuiteThrows(Error(<<"Invalid timing for reporter.", timing>>))
            /\ UNCHANGED reporters
       ELSE /\ reporters' = [reporters EXCEPT
                                ![timing] = Append(reporters[timing], reporter)]
            /\ UNCHANGED <<suitePc, settled>>
    /\ UNCHANGED <<benchmarks, reports, benchmarkSetup, pendingSetup,
                   groupBenchmarkSetup, groupBenchmarkTeardown,
                   groupSuiteSetup, groupSuiteTeardown, groupIndex,
                   groupGlobalSetupValues, benchmark, calls,
                   args, returned, benchmarkerVars,
                   suiteRuns, configVars>>

\* setSetup(fn)
SetSetup(fn) ==
    /\ suitePc = "idle"
    /\ benchmarkSetup' = fn
    /\ UNCHANGED <<benchmarks, reports, reporters, pendingSetup,
                   groupBenchmarkSetup, groupBenchmarkTeardown,
                   groupSuiteSetup, groupSuiteTeardown, groupIndex,
                   groupGlobalSetupValues, suitePc, benchmark, calls, settled,
                   args, returned, benchmarkerVars,
                   suiteRuns, configVars>>

\* line 358: fn || this.benchmarkSetup
Callable(fn) == IF fn # Absent THEN fn ELSE benchmarkSetup

\* setup(fn), and setup() when fn is absent
Setup(fn) ==
    /\ suitePc = "idle"
    /\ IF Callable(fn) = Absent
       THEN /\ SuiteThrows(Error(<<"Setup function not defined.">>))
            /\ UNCHANGED pendingSetup
       ELSE /\ pendingSetup' = Callable(fn)
            /\ UNCHANGED <<suitePc, settled>>
    /\ UNCHANGED <<benchmarks, reports, reporters, benchmarkSetup,
                   groupBenchmarkSetup, groupBenchmarkTeardown,
                   groupSuiteSetup, groupSuiteTeardown, groupIndex,
                   groupGlobalSetupValues, benchmark, calls,
                   args, returned, benchmarkerVars,
                   suiteRuns, configVars>>

\* setGroupSuiteSetup, setGroupSuiteTeardown, setGroupBenchmarkSetup and
\* setGroupBenchmarkTeardown (groupName, fn): what the call does to the keys
\* of its map
SetGroupHook(keys, groupName) ==
    IF groupName \in keys
    THEN /\ SuiteThrows(Error(<<"Function for group already defined.", groupName>>))
         /\ keys' = keys
    ELSE /\ keys' = keys \cup {groupName}
         /\ UNCHANGED <<suitePc, settled>>

SetGroupSuiteSetup(groupName) ==
    /\ suitePc = "idle"
    /\ SetGroupHook(groupSuiteSetup, groupName)
    /\ UNCHANGED <<benchmarks, reports, reporters, benchmarkSetup,
                   pendingSetup, groupBenchmarkSetup, groupBenchmarkTeardown,
                   groupSuiteTeardown, groupIndex, groupGlobalSetupValues,
                   benchmark, calls, args, returned, benchmarkerVars,
                   suiteRuns, configVars>>

SetGroupSuiteTeardown(groupName) ==
    /\ suitePc = "idle"
    /\ SetGroupHook(groupSuiteTeardown, groupName)
    /\ UNCHANGED <<benchmarks, reports, reporters, benchmarkSetup,
                   pendingSetup, groupBenchmarkSetup, groupBenchmarkTeardown,
                   groupSuiteSetup, groupIndex, groupGlobalSetupValues,
                   benchmark, calls, args, returned, benchmarkerVars,
                   suiteRuns, configVars>>

SetGroupBenchmarkSetup(groupName) ==
    /\ suitePc = "idle"
    /\ SetGroupHook(groupBenchmarkSetup, groupName)
    /\ UNCHANGED <<benchmarks, reports, reporters, benchmarkSetup,
                   pendingSetup, groupBenchmarkTeardown, groupSuiteSetup,
                   groupSuiteTeardown, groupIndex, groupGlobalSetupValues,
                   benchmark, calls, args, returned, benchmarkerVars,
                   suiteRuns, configVars>>

SetGroupBenchmarkTeardown(groupName) ==
    /\ suitePc = "idle"
    /\ SetGroupHook(groupBenchmarkTeardown, groupName)
    /\ UNCHANGED <<benchmarks, reports, reporters, benchmarkSetup,
                   pendingSetup, groupBenchmarkSetup, groupSuiteSetup,
                   groupSuiteTeardown, groupIndex, groupGlobalSetupValues,
                   benchmark, calls, args, returned, benchmarkerVars,
                   suiteRuns, configVars>>

\* getReport() of the Suite, without its date
getSuiteReport(benchmarkReports) ==
    [kind |-> "suite", name |-> "Benchmark Suite",
     results |-> benchmarkReports]

\* calls of every reporter, whatever its timing
runReportersOfAnyTiming(timing, data, at) ==
    [n \in 1..Len(reporters["after-each"]) |->
        Call(timing, reporters["after-each"][n], at, data)]
    \o [n \in 1..Len(reporters["after-all"]) |->
           Call(timing, reporters["after-all"][n], at, data)]

\* the calls of run() on the reporters of that timing, lines 578-593
runReporters(timing, data, at) ==
    [n \in 1..Len(reporters[timing]) |->
        Call(timing, reporters[timing][n], at, data)]

\* run() is called: lines 453-457, and the for loop is entered or passed
SuiteRun ==
    /\ suitePc = "idle"
    /\ suiteRuns' = suiteRuns + 1
    /\ reports' = <<>>
    /\ benchmark' = 1
    /\ suitePc' = IF Len(benchmarks) = 0 THEN "afterAll" ELSE "loop"
    /\ UNCHANGED <<benchmarks, reporters, benchmarkSetup, pendingSetup,
                   groupBenchmarkSetup, groupBenchmarkTeardown,
                   groupSuiteSetup, groupSuiteTeardown, groupIndex,
                   groupGlobalSetupValues, calls, settled,
                   args, returned, benchmarkerVars,
                   configVars>>

\* the benchmark of this pass of the loop has a group
Grouped == benchmarks[benchmark].group # Absent

\* a group suite setup function that is called for every benchmark
RunsGroupSuiteSetupEveryPass ==
    Grouped /\ benchmarks[benchmark].group \in groupSuiteSetup

\* line 462 and line 465: the group suite setup function is called
RunsGroupSuiteSetup ==
    /\ Grouped
    /\ MapGet(groupIndex, benchmarks[benchmark].group).first = benchmark
    /\ benchmarks[benchmark].group \in groupSuiteSetup

\* passDownValue after lines 460-477: it is undefined at the head of the
\* loop (lines 457 and 544)
AfterGroupSuiteSetup ==
    IF RunsGroupSuiteSetup
    THEN Value("groupSuiteSetup", benchmarks[benchmark].group, Undefined)
    ELSE Undefined

\* this.groupGlobalSetupValues after line 472
CachedSetupValues ==
    IF RunsGroupSuiteSetup
    THEN MapSet(groupGlobalSetupValues, benchmarks[benchmark].group,
                AfterGroupSuiteSetup)
    ELSE groupGlobalSetupValues

\* line 480: the group benchmark setup function is called
RunsGroupBenchmarkSetup ==
    Grouped /\ benchmarks[benchmark].group \in groupBenchmarkSetup

\* line 485: the cached value of the group
CachedSetupValue == MapGet(CachedSetupValues, benchmarks[benchmark].group)

\* passDownValue after lines 479-489
AfterGroupBenchmarkSetup ==
    IF RunsGroupBenchmarkSetup
    THEN Value("groupBenchmarkSetup", benchmarks[benchmark].group,
               CachedSetupValue)
    ELSE AfterGroupSuiteSetup

\* passDownValue after lines 492-496: what the benchmark function is
\* called with
AfterSetup ==
    IF benchmarks[benchmark].setup # Absent
    THEN Value(benchmarks[benchmark].setup, benchmarks[benchmark].name,
               AfterGroupBenchmarkSetup)
    ELSE AfterGroupBenchmarkSetup

\* the call, if the condition holds
If(condition, call) == IF condition THEN <<call>> ELSE <<>>

\* a pass in which the setup of the benchmark is called before the
\* benchmark setup of its group
CallsToBenchmarkOwnSetupFirst ==
    LET entry == benchmarks[benchmark]
    IN  <<Call("before-run", entry.name, benchmark, Undefined)>>
        \o If(RunsGroupSuiteSetup,
              Call("groupSuiteSetup", entry.group, benchmark, Undefined))
        \o If(entry.setup # Absent,
              Call(entry.setup, entry.name, benchmark,
                   AfterGroupBenchmarkSetup))
        \o If(RunsGroupBenchmarkSetup,
              Call("groupBenchmarkSetup", entry.group, benchmark,
                   CachedSetupValue))
        \o <<Call("fn", entry.name, benchmark, AfterSetup)>>

\* lines 459-505: the event, the setup functions and the benchmark
\* function, which the Benchmarker calls with passDownValue
CallsToBenchmark ==
    LET entry == benchmarks[benchmark]
    IN  <<Call("before-run", entry.name, benchmark, Undefined)>>
        \o If(RunsGroupSuiteSetup,
              Call("groupSuiteSetup", entry.group, benchmark, Undefined))
        \o If(RunsGroupBenchmarkSetup,
              Call("groupBenchmarkSetup", entry.group, benchmark,
                   CachedSetupValue))
        \o If(entry.setup # Absent,
              Call(entry.setup, entry.name, benchmark,
                   AfterGroupBenchmarkSetup))
        \o <<Call("fn", entry.name, benchmark, AfterSetup)>>

\* a report without the group
SuiteBenchmarkReportWithoutGroup == [name |-> benchmarks[benchmark].name]

\* lines 507-512: the report of the benchmark, its group set if it has one
SuiteBenchmarkReport ==
    LET entry == benchmarks[benchmark]
    IN  IF Grouped THEN [name |-> entry.name, group |-> entry.group]
        ELSE [name |-> entry.name]

\* line 515: the group benchmark teardown function is called
RunsGroupBenchmarkTeardown ==
    Grouped /\ benchmarks[benchmark].group \in groupBenchmarkTeardown

\* line 524 and line 526: the group suite teardown function is called
RunsGroupSuiteTeardown ==
    /\ Grouped
    /\ MapGet(groupIndex, benchmarks[benchmark].group).last = benchmark
    /\ benchmarks[benchmark].group \in groupSuiteTeardown

\* passDownValue after lines 515-522
AfterGroupBenchmarkTeardown ==
    IF RunsGroupBenchmarkTeardown
    THEN Value("groupBenchmarkTeardown", benchmarks[benchmark].group,
               Undefined)
    ELSE AfterSetup

\* a pass that dispatches after-run after the reporters have run
CallsAfterBenchmarkEventLast ==
    LET entry == benchmarks[benchmark]
    IN  If(RunsGroupBenchmarkTeardown,
           Call("groupBenchmarkTeardown", entry.group, benchmark, Undefined))
        \o If(RunsGroupSuiteTeardown,
              Call("groupSuiteTeardown", entry.group, benchmark,
                   AfterGroupBenchmarkTeardown))
        \o runReporters("after-each", SuiteBenchmarkReport, benchmark)
        \o <<Call("after-run", entry.name, benchmark, SuiteBenchmarkReport)>>

\* lines 514-538: the teardown functions, the event and the reporters
CallsAfterBenchmark ==
    LET entry == benchmarks[benchmark]
    IN  If(RunsGroupBenchmarkTeardown,
           Call("groupBenchmarkTeardown", entry.group, benchmark, Undefined))
        \o If(RunsGroupSuiteTeardown,
              Call("groupSuiteTeardown", entry.group, benchmark,
                   AfterGroupBenchmarkTeardown))
        \o <<Call("after-run", entry.name, benchmark, SuiteBenchmarkReport)>>
        \o runReporters("after-each", SuiteBenchmarkReport, benchmark)

\* what the benchmark function of that name throws
FunctionError(name) ==
    [k |-> "error", class |-> "Error", message |-> <<"thrown by", name>>]

\* one pass of the for loop, lines 458-545, in which the benchmark
\* function returns every time
RunBenchmark ==
    /\ suitePc = "loop"
    /\ groupGlobalSetupValues' = CachedSetupValues
    /\ calls' = calls \o CallsToBenchmark \o CallsAfterBenchmark
    /\ reports' = Append(reports, SuiteBenchmarkReport)
    /\ benchmark' = benchmark + 1
    /\ suitePc' = IF benchmark < Len(benchmarks) THEN "loop" ELSE "afterAll"
    /\ UNCHANGED <<benchmarks, reporters, benchmarkSetup, pendingSetup,
                   groupBenchmarkSetup, groupBenchmarkTeardown,
                   groupSuiteSetup, groupSuiteTeardown, groupIndex, settled,
                   args, returned, benchmarkerVars,
                   suiteRuns, configVars>>

\* a failing pass that rejects without an error event
RunBenchmarkFailsWithoutEvent ==
    /\ suitePc = "loop"
    /\ groupGlobalSetupValues' = CachedSetupValues
    /\ calls' = calls \o CallsToBenchmark
    /\ settled' = [kind |-> "rejected",
                   error |-> FunctionError(benchmarks[benchmark].name)]
    /\ suitePc' = "rejected"
    /\ UNCHANGED <<benchmarks, reports, reporters, benchmarkSetup,
                   pendingSetup, groupBenchmarkSetup, groupBenchmarkTeardown,
                   groupSuiteSetup, groupSuiteTeardown, groupIndex,
                   benchmark, args, returned, benchmarkerVars,
                   suiteRuns, configVars>>

\* one pass of the for loop in which the benchmark function throws: the
\* Benchmarker rethrows, lines 539-543
RunBenchmarkFails ==
    /\ suitePc = "loop"
    /\ groupGlobalSetupValues' = CachedSetupValues
    /\ calls' = calls \o CallsToBenchmark
                  \o <<Call("error", benchmarks[benchmark].name, benchmark,
                            FunctionError(benchmarks[benchmark].name))>>
    /\ settled' = [kind |-> "rejected",
                   error |-> FunctionError(benchmarks[benchmark].name)]
    /\ suitePc' = "rejected"
    /\ UNCHANGED <<benchmarks, reports, reporters, benchmarkSetup,
                   pendingSetup, groupBenchmarkSetup, groupBenchmarkTeardown,
                   groupSuiteSetup, groupSuiteTeardown, groupIndex,
                   benchmark, args, returned, benchmarkerVars,
                   suiteRuns, configVars>>

\* lines 546-549: the after-all reporters, and run() resolves
RunEnd ==
    /\ suitePc = "afterAll"
    /\ calls' = calls \o runReporters("after-all", getSuiteReport(reports), 0)
    /\ settled' = [kind |-> "resolved", value |-> getSuiteReport(reports)]
    /\ suitePc' = "resolved"
    /\ UNCHANGED <<benchmarks, reports, reporters, benchmarkSetup,
                   pendingSetup, groupBenchmarkSetup, groupBenchmarkTeardown,
                   groupSuiteSetup, groupSuiteTeardown, groupIndex,
                   groupGlobalSetupValues, benchmark,
                   args, returned, benchmarkerVars,
                   suiteRuns, configVars>>

\* the name of the benchmark the caller adds next
NewNames ==
    IF Len(benchmarks) < Len(Names) THEN {Names[Len(benchmarks) + 1]} ELSE {}

\* the reporter the caller registers next: the after-each reporter first
NewReporters ==
    {r \in Reporters :
        /\ Len(reporters[r.timing]) = 0
        /\ r.timing = "after-all" => Len(reporters["after-each"]) > 0}

\* the groups the caller may register that hook for: groups that have a
\* benchmark and do not have the hook
NewHooks(hook, keys) ==
    {h.groupName : h \in {c \in Hooks : /\ c.hook = hook
                                        /\ c.groupName \in DOMAIN groupIndex
                                        /\ c.groupName \notin keys}}

\* the functions the caller may pass to setup(): none once it has called
\* setSetup(), and its setup function for its first benchmark otherwise
SetupArguments ==
    IF pendingSetup # Absent THEN {}
    ELSE IF benchmarkSetup # Absent THEN {Absent}
    ELSE IF Len(benchmarks) = 0 THEN {SetupFunction, Absent}
    ELSE {Absent}

SuiteNext ==
    \/ \E name \in NewNames : SuiteAdd(name)
    \/ \E name \in NewNames : \E groupName \in Groups :
           SuiteGroup(groupName, name)
    \/ \E r \in NewReporters : AddReporter(r.reporter, r.timing)
    \/ benchmarkSetup = Absent /\ SetSetup(SetupFunction)
    \/ \E fn \in SetupArguments : Setup(fn)
    \/ \E groupName \in NewHooks("groupSuiteSetup", groupSuiteSetup) :
           SetGroupSuiteSetup(groupName)
    \/ \E groupName \in NewHooks("groupSuiteTeardown", groupSuiteTeardown) :
           SetGroupSuiteTeardown(groupName)
    \/ \E groupName \in NewHooks("groupBenchmarkSetup", groupBenchmarkSetup) :
           SetGroupBenchmarkSetup(groupName)
    \/ \E groupName \in NewHooks("groupBenchmarkTeardown",
                                 groupBenchmarkTeardown) :
           SetGroupBenchmarkTeardown(groupName)
    \/ SuiteRun
    \/ RunBenchmark
    \/ RunBenchmarkFails
    \/ RunEnd

\* a Suite made with the default options, and a Benchmarker that is not run
SuiteInit ==
    /\ args = NoCall
    /\ returned = NotReturned
    /\ SuiteConstructed
    /\ opts = [warmupIterations |-> 10,
               innerIterations |-> 10,
               maxInnerIterations |-> 10000,
               timeThreshold |-> 1,
               minSamples |-> 10,
               maxIterations |-> 100,
               maxExecutionTime |-> 10000]
    /\ Constructed

SuiteSpec == SuiteInit /\ [][SuiteNext]_vars

(***************************************************************************)
(* The queue of a Suite whose caller picks the names freely, so that a     *)
(* name can be given twice, and goes on after a call has thrown, as a      *)
(* caller does that wraps the call in try and catch.  The caller has two   *)
(* names and one group, registers no hook and no reporter, and passes its  *)
(* setup function to setup().                                              *)
(***************************************************************************)
\* the names the caller gives its benchmarks
QueueNames == {"Benchmark 1", "Benchmark 2"}

\* the group the caller adds benchmarks to
QueueGroups == {"Group 1"}

\* the caller catches what add(), group() or setup() threw and goes on
Caught ==
    /\ suitePc = "threw"
    /\ suitePc' = "idle"
    /\ settled' = NotReturned
    /\ UNCHANGED <<benchmarks, reports, reporters, benchmarkSetup,
                   pendingSetup, groupBenchmarkSetup, groupBenchmarkTeardown,
                   groupSuiteSetup, groupSuiteTeardown, groupIndex,
                   groupGlobalSetupValues, benchmark, calls,
                   args, returned, benchmarkerVars,
                   suiteRuns, configVars>>

QueueNext ==
    \/ \E name \in QueueNames : SuiteAdd(name)
    \/ \E name \in QueueNames : \E groupName \in QueueGroups :
           SuiteGroup(groupName, name)
    \/ \E fn \in {SetupFunction, Absent} : Setup(fn)
    \/ Caught
    \/ SuiteRun
    \/ RunBenchmark
    \/ RunBenchmarkFails
    \/ RunEnd

QueueSpec == SuiteInit /\ [][QueueNext]_vars

(***************************************************************************)
(* run() of a Suite whose hooks and reporters can throw, and which is run  *)
(* again after it has settled.  The caller registers an after-each         *)
(* reporter or none, then hooks of the one group it has, then adds up to   *)
(* two benchmarks, to the group or to none, with a setup or without.       *)
(***************************************************************************)
\* what a hook or a reporter throws, told by the call that threw
HookError(call) == Error(<<"thrown by", call.what, call.of>>)

\* the calls of a pass in which nothing throws
PassCalls == CallsToBenchmark \o CallsAfterBenchmark

\* a call of a hook or of a reporter; what a listener throws is not passed
\* on by dispatchEvent
CanThrow(call) == call.what \notin {"before-run", "after-run", "fn"}

\* one pass of the for loop in which the k-th call, of a hook or of a
\* reporter, throws.  The setup functions are called before the try block
\* (lines 460-496), the teardown functions and the reporters in it, after
\* the report was pushed (lines 498-538); the catch block dispatches the
\* error event (lines 539-543)
RunBenchmarkHookFails(k) ==
    /\ suitePc = "loop"
    /\ k \in 1..Len(PassCalls)
    /\ CanThrow(PassCalls[k])
    /\ LET failed == PassCalls[k]
           inTry == k > Len(CallsToBenchmark)
       IN  /\ calls' = calls \o SubSeq(PassCalls, 1, k)
                         \o If(inTry, Call("error", benchmarks[benchmark].name,
                                           benchmark, HookError(failed)))
           /\ reports' = IF inTry THEN Append(reports, SuiteBenchmarkReport)
                         ELSE reports
           /\ groupGlobalSetupValues' =
                  IF failed.what = "groupSuiteSetup"
                  THEN groupGlobalSetupValues ELSE CachedSetupValues
           /\ settled' = [kind |-> "rejected", error |-> HookError(failed)]
    /\ suitePc' = "rejected"
    /\ UNCHANGED <<benchmarks, reporters, benchmarkSetup, pendingSetup,
                   groupBenchmarkSetup, groupBenchmarkTeardown,
                   groupSuiteSetup, groupSuiteTeardown, groupIndex,
                   benchmark, args, returned, benchmarkerVars,
                   suiteRuns, configVars>>

\* a run() that adds to the reports of the run before it
SuiteRunAgainKeepsReports ==
    /\ suitePc \in {"resolved", "rejected"}
    /\ suiteRuns < MaxSuiteRuns
    /\ suiteRuns' = suiteRuns + 1
    /\ benchmark' = 1
    /\ calls' = <<>>
    /\ settled' = NotReturned
    /\ suitePc' = IF Len(benchmarks) = 0 THEN "afterAll" ELSE "loop"
    /\ UNCHANGED <<benchmarks, reports, reporters, benchmarkSetup,
                   pendingSetup, groupBenchmarkSetup, groupBenchmarkTeardown,
                   groupSuiteSetup, groupSuiteTeardown, groupIndex,
                   groupGlobalSetupValues, args, returned, benchmarkerVars,
                   configVars>>

\* run() is called after a run() has settled: lines 453-457
SuiteRunAgain ==
    /\ suitePc \in {"resolved", "rejected"}
    /\ suiteRuns < MaxSuiteRuns
    /\ suiteRuns' = suiteRuns + 1
    /\ reports' = <<>>
    /\ benchmark' = 1
    /\ calls' = <<>>
    /\ settled' = NotReturned
    /\ suitePc' = IF Len(benchmarks) = 0 THEN "afterAll" ELSE "loop"
    /\ UNCHANGED <<benchmarks, reporters, benchmarkSetup, pendingSetup,
                   groupBenchmarkSetup, groupBenchmarkTeardown,
                   groupSuiteSetup, groupSuiteTeardown, groupIndex,
                   groupGlobalSetupValues, args, returned, benchmarkerVars,
                   configVars>>

\* the caller has added nothing yet and may add two benchmarks
BeforeBenchmarks == benchmarks = <<>>
MayAdd == Len(benchmarks) < 2

RerunNext ==
    \/ /\ BeforeBenchmarks
       /\ reporters["after-each"] = <<>>
       /\ groupSuiteSetup \cup groupBenchmarkSetup \cup groupBenchmarkTeardown
              \cup groupSuiteTeardown = {}
       /\ AddReporter("afterEachReporter", "after-each")
    \/ /\ BeforeBenchmarks
       /\ groupSuiteSetup \cup groupBenchmarkSetup \cup groupBenchmarkTeardown
              \cup groupSuiteTeardown = {}
       /\ SetGroupSuiteSetup("Group 1")
    \/ /\ BeforeBenchmarks
       /\ groupBenchmarkSetup \cup groupBenchmarkTeardown
              \cup groupSuiteTeardown = {}
       /\ SetGroupBenchmarkSetup("Group 1")
    \/ /\ BeforeBenchmarks
       /\ groupBenchmarkTeardown \cup groupSuiteTeardown = {}
       /\ SetGroupBenchmarkTeardown("Group 1")
    \/ /\ BeforeBenchmarks
       /\ groupSuiteTeardown = {}
       /\ SetGroupSuiteTeardown("Group 1")
    \/ MayAdd /\ pendingSetup = Absent /\ Setup(SetupFunction)
    \/ MayAdd /\ SuiteAdd(Names[Len(benchmarks) + 1])
    \/ MayAdd /\ SuiteGroup("Group 1", Names[Len(benchmarks) + 1])
    \/ SuiteRun
    \/ RunBenchmark
    \/ RunBenchmarkFails
    \/ \E k \in 1..8 : RunBenchmarkHookFails(k)
    \/ RunEnd
    \/ SuiteRunAgain

RerunSpec == SuiteInit /\ [][RerunNext]_vars

(***************************************************************************)
(* The options of a Suite (src/src/suite_config.ts, and lines 217-225 and  *)
(* 499-504 of src/src/suite.ts).  An options object is a function from the *)
(* keys it has to their values.  The caller gives the constructor, the     *)
(* configuration file and add() objects with some of two keys; load() is   *)
(* called twice, by the caller or by run(), and the second call can be     *)
(* made while the first is awaiting SuiteConfig.load(), which reads the    *)
(* file.  A run() that has awaited its load() makes the Benchmarker of a   *)
(* benchmark.                                                              *)
(***************************************************************************)
\* the defaults of the getters of SuiteConfig, lines 64-118, which are the
\* defaults of the constructor of Benchmarker, lines 104-110 of benchmark.ts
DefaultOptions ==
    [warmupIterations |-> 10,
     innerIterations |-> 10,
     maxInnerIterations |-> 10000,
     timeThreshold |-> 1,
     minSamples |-> 10,
     maxIterations |-> 100,
     maxExecutionTime |-> 10000]

\* the keys the caller gives values to
ConfigKeys == {"maxIterations", "warmupIterations"}

\* the options objects with some of those keys and values of that set
OptionObjects(values) ==
    UNION {[keys -> values] : keys \in SUBSET ConfigKeys}

\* the values the caller gives to the constructor, the values the file
\* holds and the values the caller gives to add()
InitOptionValues == {0, 5}
FileOptionValues == {0, 20}
BenchmarkOptionValues == {3}

\* a merge in which the file wins
MergeFileOverInit(fileOptions, init) ==
    [key \in DOMAIN fileOptions \cup DOMAIN init |->
        IF key \in DOMAIN fileOptions THEN fileOptions[key] ELSE init[key]]

\* line 250 of suite_config.ts: { ...fileOptions, ...this.initOptions }
Merge(fileOptions, init) ==
    [key \in DOMAIN fileOptions \cup DOMAIN init |->
        IF key \in DOMAIN init THEN init[key] ELSE fileOptions[key]]

\* a getter of SuiteConfig: this.options.x || default, where 0 and
\* undefined are falsy
Getter(key) ==
    IF key \in DOMAIN configOptions /\ configOptions[key] # 0
    THEN configOptions[key] ELSE DefaultOptions[key]

\* what the properties of a SuiteConfig read as
SuiteConfigOptions == [key \in DOMAIN DefaultOptions |-> Getter(key)]

\* lines 103-112 of benchmark.ts: the destructuring of opts, where a
\* default stands for a property that is undefined
Destructured(object) ==
    [key \in DOMAIN DefaultOptions |->
        IF key \in DOMAIN object THEN object[key] ELSE DefaultOptions[key]]

\* line 502 of suite.ts: benchmark.options || this.options, destructured by
\* the constructor of Benchmarker
BenchmarkerOptions ==
    IF benchmarkOptions # NoOptions THEN Destructured(benchmarkOptions)
    ELSE Destructured(SuiteConfigOptions)

\* Suite.load(), lines 217-225 of suite.ts, up to its await
SuiteLoad(c) ==
    /\ loadPc[c] = "none"
    /\ IF configLoaded
       THEN /\ loadPc' = [loadPc EXCEPT ![c] = "resolved"]
            /\ UNCHANGED <<configLoaded, configLoads>>
       ELSE /\ configLoaded' = TRUE
            /\ configLoads' = configLoads + 1
            /\ loadPc' = [loadPc EXCEPT ![c] = "loading"]
    /\ UNCHANGED <<initOptions, configOptions, configFile, logged,
                   benchmarkOptions, queueVars, args, returned,
                   benchmarkerVars>>

\* SuiteConfig.load(), lines 234-256 of suite_config.ts, returns and the
\* load() that awaited it resolves
SuiteConfigLoad(c) ==
    /\ loadPc[c] = "loading"
    /\ IF configFile = NoFile
       THEN UNCHANGED <<configOptions, logged>>
       ELSE IF configFile = Unreadable
       THEN /\ logged' = Append(logged,
                                <<"Error loading configuration file:">>)
            /\ UNCHANGED configOptions
       ELSE /\ configOptions' = Merge(configFile, initOptions)
            /\ UNCHANGED logged
    /\ loadPc' = [loadPc EXCEPT ![c] = "resolved"]
    /\ UNCHANGED <<initOptions, configFile, configLoaded, configLoads,
                   benchmarkOptions, queueVars, args, returned,
                   benchmarkerVars>>

\* run() has awaited its load() and makes the Benchmarker of a benchmark:
\* lines 499-504 of suite.ts and the constructor of Benchmarker
MakeBenchmarker(c) ==
    /\ loadPc[c] = "resolved"
    /\ opts' = BenchmarkerOptions
    /\ innerIterations' = BenchmarkerOptions.innerIterations
    /\ loadPc' = [loadPc EXCEPT ![c] = "running"]
    /\ UNCHANGED <<initOptions, configOptions, configFile, configLoaded,
                   configLoads, logged, benchmarkOptions, queueVars, args,
                   returned, results, mean, pc, awaiting, i, j,
                   adaptiveInnerIterations, batchTime, runTime, runError,
                   warnings, report, runs, invocations, thrown, failedAt,
                   failedIn, probes>>

ConfigNext ==
    \E c \in Callers :
        \/ SuiteLoad(c)
        \/ SuiteConfigLoad(c)
        \/ MakeBenchmarker(c)

\* a Suite made with the options of the caller: lines 161-162 of
\* suite_config.ts
ConfigInit ==
    /\ args = NoCall
    /\ returned = NotReturned
    /\ SuiteFields
    /\ initOptions \in OptionObjects(InitOptionValues)
    /\ configOptions = initOptions
    /\ configFile \in {NoFile, Unreadable} \cup OptionObjects(FileOptionValues)
    /\ benchmarkOptions \in
           {NoOptions} \cup OptionObjects(BenchmarkOptionValues)
    /\ opts = DefaultOptions
    /\ Constructed

ConfigSpec == ConfigInit /\ [][ConfigNext]_vars

(***************************************************************************)
(* removeOutliers() on its own: run() has recorded a sample set and is     *)
(* about to filter it.  The samples are those of a timed function whose    *)
(* invocations take whole milliseconds, measured one invocation per batch  *)
(* (innerIterations 1, no warm-up, one calibration batch of 1 ms).         *)
(***************************************************************************)
\* the example of tests/unit/benchmark.spec.ts, line 144
OutlierExample == <<Num(1), Num(2), Num(3), Num(4), Num(5), Num(100)>>

\* the times, in milliseconds, of the recorded samples
SampleTimes == {0, 1, 2, 100}

\* the sample sets run() has recorded
RecordedSamples ==
    {OutlierExample} \cup
    UNION {[1..n -> {Num(t) : t \in SampleTimes}] : n \in 0..MaxSamples}

\* the whole milliseconds the samples took
TotalTime(samples) == Sum(samples).v \div Scale

\* the main loop of run() has just ended with the samples recorded
FilterInit ==
    /\ args = NoCall
    /\ returned = NotReturned
    /\ SuiteConstructed
    /\ results \in RecordedSamples
    /\ opts \in [warmupIterations : {0},
                  innerIterations : {1},
                  maxInnerIterations : {1},
                  timeThreshold : {1},
                  minSamples : {0, 5, 10},
                  maxIterations : {Len(results)},
                  maxExecutionTime : {10000}]
    /\ innerIterations = 1
    /\ mean = Undefined
    /\ pc = "filter"
    /\ awaiting = FALSE
    /\ i = Len(results)
    /\ j = 0
    /\ adaptiveInnerIterations = 1
    /\ batchTime = 0
    /\ runTime = 1 + TotalTime(results)
    /\ runError = NoError
    /\ warnings = {}
    /\ report = NoReport
    /\ runs = 1
    /\ invocations = 1 + Len(results)
    /\ thrown = NoError
    /\ failedAt = 0
    /\ failedIn = "none"
    /\ probes = 1

\* removeOutliers() runs and run() resolves
FilterSpec == FilterInit /\ [][Complete]_vars

(***************************************************************************)
(* Properties of the library.                                              *)
(***************************************************************************)
\* the statistics of a report
DerivedFields == {"mean", "median", "stddev", "variance", "sem", "me", "rme", "ops"}

\* C1: in every phase of run(), once an invocation of the timed function
\* has thrown, run() has rejected with the very value thrown, no invocation
\* is in flight and the failing invocation is the last one of this run()
C1_ErrorPropagatesUnchanged ==
    thrown # NoError =>
        /\ pc = "rejected"
        /\ runError = thrown
        /\ ~awaiting
        /\ invocations = failedAt

\* C1: the timed function threw Error2 in the main loop, after a sample
\* was recorded, and run() rejected
C1_Witness ==
    /\ pc = "rejected"
    /\ thrown = "Error2"
    /\ failedIn = "sample"
    /\ Len(results) > 0

\* C2: after run() rejected, a report taken with getReport() exposes no
\* sample of that run
C2_NoPartialReport ==
    (pc = "rejected" /\ report # NoReport) =>
        /\ report.size = 0
        /\ report.sample = <<>>

\* C3: a run() with maxIterations = 0 in which the timed function never
\* throws does not reject; once it has resolved a warning is logged, and a
\* report taken then has size 0 and every statistic exactly 0
C3_NoIterationsReport ==
    (opts.maxIterations = 0 /\ runs > 0 /\ Settled /\ thrown = NoError) =>
        /\ pc = "resolved"
        /\ "noIterationCompleted" \in warnings
        /\ report # NoReport =>
              /\ report.size = 0
              /\ report.sample = <<>>
              /\ \A f \in DerivedFields : report[f] = Zero

\* C3: a run() with maxIterations = 0 resolved after warm-up and
\* calibration invocations, and its report was taken
C3_Witness ==
    /\ opts.maxIterations = 0
    /\ pc = "resolved"
    /\ invocations > 1
    /\ report # NoReport

\* C4: a report taken after run() resolved is computed over the final
\* samples of that run: its size is their count, its mean their arithmetic
\* mean, and the other statistics are the kernel's for them and that mean
C4_ReportOverFinalSamples ==
    (pc = "resolved" /\ report # NoReport) =>
        /\ report.sample = results
        /\ report.size = Len(results)
        /\ IF Len(results) = 0
           THEN \A f \in DerivedFields : report[f] = Zero
           ELSE LET average == arithmeticMean(results)
                    deviation == sampleStandardDeviation(results)
                IN  /\ report.mean = average
                    /\ report.ops = Div(Num(MillisecondsPerSecond), average)
                    /\ report.rme = relativeMarginOfError(average, deviation,
                                                          Num(Len(results)))
                    /\ report.me = marginOfError(deviation,
                                                 Num(Len(results)))
                    /\ report.sem = Div(deviation, Sqrt(Num(Len(results))))
                    /\ report.stddev = deviation
                    /\ report.variance = sampleVariance(results)
                    /\ report.median = median(results)

\* C5: a report over a non-empty sample set whose mean is 0 has ops 0, not
\* Infinity, and the zero mean was warned about
C5_ZeroMeanZeroOps ==
    (pc = "resolved" /\ report # NoReport /\ report.size > 0
        /\ report.mean = Zero) =>
        /\ report.ops = Zero
        /\ "meanIsZero" \in warnings

\* C6: in a report, whatever the count and content of its samples, stddev,
\* variance, sem, me, rme and ops are numbers >= 0, never NaN
C6_DispersionNonNegative ==
    (pc = "resolved" /\ report # NoReport) =>
        \A f \in {"stddev", "variance", "sem", "me", "rme", "ops"} :
            Ge(report[f], Zero)

\* sample is in ascending order
IsAscending(sample) ==
    \A n \in 1..(Len(sample) - 1) : Le(sample[n], sample[n + 1])

\* C7: the sample of a report taken after run() resolved is in ascending
\* order, whether the outlier filter was applied or skipped
C7_SampleAscending ==
    (pc = "resolved" /\ report # NoReport) => IsAscending(report.sample)

\* C8: calibration starts from the configured innerIterations in every
\* run(); after a probe batch the count is doubled and another batch run
\* exactly when the batch took less than timeThreshold and the count is
\* below maxInnerIterations, otherwise calibration stops with that count;
\* every sample of the run is a batch of exactly that many invocations
C8_CalibrationRule ==
    [][/\ (pc = "warmup" /\ pc' = "calibrate") =>
              adaptiveInnerIterations' = opts.innerIterations
       /\ (pc = "probe" /\ ~awaiting /\ ~awaiting') =>
              IF /\ batchTime < opts.timeThreshold
                 /\ adaptiveInnerIterations < opts.maxInnerIterations
              THEN /\ adaptiveInnerIterations' = 2 * adaptiveInnerIterations
                   /\ pc' = "calibrate"
              ELSE /\ pc' \in {"sample", "filter"}
                   /\ innerIterations' = adaptiveInnerIterations
       /\ pc = "sample" => innerIterations' = innerIterations
       /\ (pc = "sample" /\ Len(results') > Len(results)) =>
              j = innerIterations]_vars

\* C9: when the configured innerIterations is at most maxInnerIterations,
\* the inner-loop size calibration fixes is at most maxInnerIterations
C9_CeilingRespected ==
    (/\ opts.innerIterations <= opts.maxInnerIterations
     /\ pc \in {"sample", "filter", "resolved"}) =>
        innerIterations <= opts.maxInnerIterations

\* count * 2^k >= ceiling, for a whole number k
Reaches(count, ceiling, k) ==
    IF k >= 0 THEN count * 2 ^ k >= ceiling ELSE count >= ceiling * 2 ^ (-k)

\* ceil(log2(ceiling / count)) for count, ceiling in 1..64
CeilLog2Ratio(ceiling, count) ==
    CHOOSE k \in -8..8 :
        Reaches(count, ceiling, k) /\ ~Reaches(count, ceiling, k - 1)

\* C10: the number of probe batches of calibration is at most
\* ceil(log2(maxInnerIterations / innerIterations)) + 1 (which states no
\* bound when innerIterations is 0)
C10_ProbesWithinBound ==
    opts.innerIterations > 0 =>
        probes <= CeilLog2Ratio(opts.maxInnerIterations,
                                opts.innerIterations) + 1

\* C10: for every configuration, when every invocation of the timed
\* function completes, calibration takes a finite number of probe batches
\* and then ends, so run() settles
C10_CalibrationConverges ==
    (pc \in {"calibrate", "probe"}) ~> (pc \notin {"calibrate", "probe"})

\* C11: a sample is recorded only while fewer than maxIterations are, and
\* is added after the ones recorded before; after it the main loop ends
\* exactly when the time since run() was called exceeds maxExecutionTime or
\* maxIterations samples are recorded, and it ends without an error; so the
\* loop of a run() with maxIterations >= 1 ends with at least one sample
C11_SamplingLoopBudget ==
    [][/\ Len(results') > Len(results) =>
              /\ pc = "sample"
              /\ Len(results) < opts.maxIterations
              /\ Len(results') = Len(results) + 1
              /\ SubSeq(results', 1, Len(results)) = results
              /\ pc' \in {"sample", "filter"}
              /\ pc' = "filter" <=>
                     \/ runTime > opts.maxExecutionTime
                     \/ Len(results') = opts.maxIterations
       /\ (pc = "sample" /\ pc' # "sample") =>
              \/ pc' = "rejected" /\ thrown' # NoError
              \/ pc' = "filter" /\ Len(results') >= 1 /\ thrown' = NoError
       /\ (pc' = "filter" /\ pc # "filter" /\ opts.maxIterations >= 1) =>
              Len(results') >= 1]_vars

\* C11: the main loop ended after its first sample, short of maxIterations,
\* because the time budget was exceeded
C11_Witness ==
    /\ pc = "filter"
    /\ "maxExecutionTimeExceeded" \in warnings
    /\ Len(results) = 1
    /\ opts.maxIterations = 2

\* the number of times value occurs in samples
Count(samples, value) ==
    Cardinality({n \in 1..Len(samples) : samples[n] = value})

\* the values of samples
Values(samples) == {samples[n] : n \in 1..Len(samples)}

Phase(position) ==
    CASE position = "idle" -> 0
      [] position = "warmup" -> 1
      [] position \in {"calibrate", "probe"} -> 2
      [] position = "sample" -> 3
      [] position = "filter" -> 4
      [] position = "resolved" -> 5
      [] position = "rejected" -> 6

C14_NoOverlap ==
    [][/\ invocations' = invocations + 1 => ~awaiting /\ awaiting'
       /\ (awaiting /\ awaiting') => invocations' = invocations
       /\ (awaiting /\ ~awaiting') =>
              /\ invocations' = invocations
              /\ \/ pc' = pc /\ thrown' = NoError
                 \/ pc' = "rejected" /\ failedAt' = invocations]_vars

\* C14: the second invocation of a sample batch is in flight
C14_Witness ==
    /\ pc = "sample"
    /\ awaiting
    /\ j = 1
    /\ invocations >= 3

Mirrored == compare(args.b, args.a)

\* but for aWins, the two results are mirror images: dmean, dops, ts and
\* cohensd are negated (a NaN is NaN in both), df and p are the same
MirrorImages(result, mirrored) ==
    /\ mirrored.k = "ComparisonResult"
    /\ mirrored.dmean = Neg(result.dmean)
    /\ mirrored.dops = Neg(result.dops)
    /\ mirrored.ts = Neg(result.ts)
    /\ mirrored.df = result.df
    /\ mirrored.p = result.p
    /\ mirrored.cohensd = Neg(result.cohensd)

\* C16: when compare(a, b) succeeds, compare(b, a) is its mirror image:
\* aWins is flipped, dmean, dops, ts and cohensd are negated, df and p are
\* the same
C16_MirrorImage ==
    (args.fn = "compare" /\ returned.kind = "returned") =>
        /\ MirrorImages(returned.value, Mirrored)
        /\ Mirrored.aWins = ~returned.value.aWins

\* C16, amended: as C16, but aWins is flipped only when the means differ;
\* when they are equal it is false in both results
C16_MirrorImageUnlessTied ==
    (args.fn = "compare" /\ returned.kind = "returned") =>
        /\ MirrorImages(returned.value, Mirrored)
        /\ IF args.a.mean = args.b.mean
           THEN ~returned.value.aWins /\ ~Mirrored.aWins
           ELSE Mirrored.aWins = ~returned.value.aWins

\* C16: compare succeeded for a report that is faster than the other and
\* has another deviation and size
C16_Witness ==
    /\ args.fn = "compare"
    /\ returned.kind = "returned"
    /\ returned.value.aWins
    /\ args.a.stddev # args.b.stddev
    /\ args.a.size # args.b.size

\* C17: calculateDegreesOfFreedom with both deviations 0 throws or returns
\* a number, not NaN; calculateCohensD with n1 + n2 <= 2 throws
C17_KernelGuardsDegenerateInputs ==
    /\ (/\ args.fn = "calculateDegreesOfFreedom"
        /\ args.s1 = Zero
        /\ args.s2 = Zero
        /\ returned # NotReturned) =>
           returned.kind = "thrown" \/ ~IsNaN(returned.value)
    /\ (/\ args.fn = "calculateCohensD"
        /\ Le(Add(args.n1, args.n2), Num(2))
        /\ returned # NotReturned) =>
           returned.kind = "thrown"

\* C18: calculatePValue(t, df) throws exactly when df <= 0 or one of t and
\* df is not finite
C18_PValueRejectsNonFinite ==
    (args.fn = "calculatePValue" /\ returned # NotReturned) =>
        (returned.kind = "thrown" <=>
            \/ Le(args.df, Zero)
            \/ ~IsFinite(args.tStat)
            \/ ~IsFinite(args.df))

\* suiteReport has a report of the function
HasFunction(suiteReport, functionName) ==
    /\ IsArray(Property(suiteReport, "results"))
    /\ \E n \in 1..Len(suiteReport.results.items) :
           Property(suiteReport.results.items[n], "name")
               = String(functionName)

\* the suite reports the filter lets through that have a report of the
\* function
Matching ==
    SelectSeq(FilterReports(args.suiteReports.items, args.options.filter),
              LAMBDA suiteReport : HasFunction(suiteReport, args.functionName))

\* C19: compareFunction throws or returns; it throws when fewer than two of
\* the filtered suite reports have a report of the function (none at all
\* among them), and what it returns are the results of at least two such
\* reports, all of them ComparisonResults
C19_FailsFastBelowTwoReports ==
    (args.fn = "compareFunction" /\ returned # NotReturned) =>
        /\ returned.kind \in {"thrown", "returned"}
        /\ Len(Matching) < 2 => returned.kind = "thrown"
        /\ returned.kind = "returned" =>
              /\ Len(Matching) >= 2
              /\ Len(returned.value.items) >= 1
              /\ \A n \in 1..Len(returned.value.items) :
                     returned.value.items[n].k = "ComparisonResult"

\* C19: compareFunction threw for one suite report that has the function
C19_Witness ==
    /\ args.fn = "compareFunction"
    /\ args.functionName = "My Function"
    /\ args.suiteReports = Array(<<SuiteReport1>>)
    /\ returned.kind = "thrown"
    /\ returned.error.class = "Error"

RECURSIVE Concat(_)
\* the sequences of a sequence, one after the other
Concat(sequences) ==
    IF Len(sequences) = 0 THEN <<>>
    ELSE sequences[1] \o Concat(Tail(sequences))

\* every violation of a suite report and of the reports in it
ViolationsOf(suiteReport) ==
    validateSuiteReport(suiteReport)
    \o (IF IsArray(Property(suiteReport, "results"))
        THEN Concat([n \in 1..Len(suiteReport.results.items) |->
                        validateBenchmarkReport(suiteReport.results.items[n])])
        ELSE <<>>)

\* every violation of the suite reports given to compareFunction
AllViolations ==
    Concat([n \in 1..Len(args.suiteReports.items) |->
               ViolationsOf(args.suiteReports.items[n])])

\* C20: when a suite report given to compareFunction, or a report in one,
\* whether of the function or not, has a violation, the call throws a
\* validation exception whose violations are all the violations there are
C20_ValidatesEveryReport ==
    (/\ args.fn = "compareFunction"
     /\ returned # NotReturned
     /\ AllViolations # <<>>) =>
        /\ returned.kind = "thrown"
        /\ returned.error.class \in {"SuiteValidationException",
                                     "ReportValidationException"}
        /\ returned.error.violations = AllViolations

\* the reports of the function in the suite reports the filter lets through,
\* in the order of the caller's sort function, or of the array without one
MatchingReports ==
    LET sorted == SortReports(Matching, args.options.sort)
    IN  [n \in 1..Len(sorted) |->
            Find(sorted[n].results.items, args.functionName)]

\* the place of the pair (m, n), m < n, among the pairs of 1..k ordered by
\* m and then n
PairIndex(m, n, k) == (m - 1) * k - (m * (m - 1)) \div 2 + (n - m)

\* C21: what compareFunction returns for k suite reports that each have the
\* function are k(k-1)/2 results, the one for the pair (m, n), m < n, at
\* its place in the order by m and then n, with a the m-th and b the n-th
\* report of the function and the rest what compare(a, b) gives
C21_AllPairsInOrder ==
    (args.fn = "compareFunction" /\ returned.kind = "returned") =>
        LET k == Len(MatchingReports)
            pairs == returned.value.items
        IN  /\ k = Len(SortReports(FilterReports(args.suiteReports.items,
                                                 args.options.filter),
                                   args.options.sort))
            /\ Len(pairs) = (k * (k - 1)) \div 2
            /\ \A m \in 1..k : \A n \in (m + 1)..k :
                   /\ pairs[PairIndex(m, n, k)].a = MatchingReports[m]
                   /\ pairs[PairIndex(m, n, k)].b = MatchingReports[n]
                   /\ pairs[PairIndex(m, n, k)]
                          = compare(MatchingReports[m], MatchingReports[n])

\* C21: compareFunction returned three results for three suite reports the
\* caller's sort function puts in another order
C21_Witness ==
    /\ args.fn = "compareFunction"
    /\ args.options = [filter |-> "none", sort |-> "newestFirst"]
    /\ args.suiteReports = Array(<<SuiteReport1, SuiteReport4, SuiteReport2>>)
    /\ returned.kind = "returned"
    /\ Len(returned.value.items) = 3
    /\ returned.value.items[1].a = ReportD
    /\ returned.value.items[3].b = ReportA

\* C22: an error the library throws has a code and a message
C22_ErrorsCarryCode ==
    returned.kind = "thrown" =>
        /\ "code" \in DOMAIN returned.error
        /\ "message" \in DOMAIN returned.error

(***************************************************************************)
(* Properties of the Suite.                                                *)
(***************************************************************************)
\* the places in calls of the calls of that kind for the benchmark at n
Where(what, n) ==
    {p \in 1..Len(calls) : calls[p].what = what /\ calls[p].at = n}

\* the places in calls of the calls of that kind of that group, benchmark
\* or reporter
WhereOf(what, of) ==
    {p \in 1..Len(calls) : calls[p].what = what /\ calls[p].of = of}

\* the benchmarks of the queue that are in the group
InGroup(groupName) ==
    {n \in 1..Len(benchmarks) : benchmarks[n].group = groupName}

\* the benchmark at n is the first, the last of its group in the queue
FirstOfGroup(n) == \A m \in InGroup(benchmarks[n].group) : n <= m
LastOfGroup(n) == \A m \in InGroup(benchmarks[n].group) : m <= n

\* the events of the Suite
Events == {"before-run", "after-run", "error"}

\* the functions and reporters called for the benchmark at n, in the order
\* of the calls
Lifecycle(n) ==
    LET of == SelectSeq(calls,
                        LAMBDA c : c.at = n /\ c.what \notin Events)
    IN  [p \in 1..Len(of) |-> of[p].what]

\* the steps before the benchmark function of the benchmark at n
StepsBefore(n) ==
    LET entry == benchmarks[n]
    IN  If(entry.group \in groupSuiteSetup /\ FirstOfGroup(n),
           "groupSuiteSetup")
        \o If(entry.group \in groupBenchmarkSetup, "groupBenchmarkSetup")
        \o If(entry.setup # Absent, SetupFunction)

\* the steps after the benchmark function of the benchmark at n
StepsAfter(n) ==
    LET entry == benchmarks[n]
    IN  If(entry.group \in groupBenchmarkTeardown, "groupBenchmarkTeardown")
        \o If(entry.group \in groupSuiteTeardown /\ LastOfGroup(n),
              "groupSuiteTeardown")
        \o [r \in 1..Len(reporters["after-each"]) |-> "after-each"]

C24_GroupSuiteHooksOnce ==
    suitePc = "resolved" =>
        \A groupName \in DOMAIN groupIndex :
            LET functions == UNION {Where("fn", n) : n \in InGroup(groupName)}
                teardowns == WhereOf("groupBenchmarkTeardown", groupName)
                setups == WhereOf("groupSuiteSetup", groupName)
                suiteTeardowns == WhereOf("groupSuiteTeardown", groupName)
            IN  /\ Cardinality(setups) =
                       IF groupName \in groupSuiteSetup THEN 1 ELSE 0
                /\ \A p \in setups : \A q \in functions : p < q
                /\ Cardinality(suiteTeardowns) =
                       IF groupName \in groupSuiteTeardown THEN 1 ELSE 0
                /\ \A p \in suiteTeardowns :
                       \A q \in functions \cup teardowns : q < p

\* C24: run() resolved for a benchmark of the second group between two of
\* the first, both groups with a suite setup and a suite teardown
C24_Witness ==
    /\ suitePc = "resolved"
    /\ Len(benchmarks) = 3
    /\ InGroup("Group 1") = {1, 3}
    /\ InGroup("Group 2") = {2}
    /\ groupSuiteSetup = Groups
    /\ groupSuiteTeardown = Groups

\* what the suite setup of the group of the benchmark at n returns, if the
\* group has one
SuiteSetupValue(n) ==
    IF benchmarks[n].group \in groupSuiteSetup
    THEN Value("groupSuiteSetup", benchmarks[n].group, Undefined)
    ELSE Undefined

\* what the group benchmark setup returns when called with that value, and
\* that value if the group has none
BenchmarkSetupValue(n) ==
    IF benchmarks[n].group \in groupBenchmarkSetup
    THEN Value("groupBenchmarkSetup", benchmarks[n].group, SuiteSetupValue(n))
    ELSE SuiteSetupValue(n)

\* what the setup of the benchmark returns when called with that value, and
\* that value if the benchmark has none
SetupValue(n) ==
    IF benchmarks[n].setup # Absent
    THEN Value(benchmarks[n].setup, benchmarks[n].name,
               BenchmarkSetupValue(n))
    ELSE BenchmarkSetupValue(n)

\* C25: for every benchmark of a group, the first or not, the group
\* benchmark setup is called with what the suite setup of the group
\* returned, the setup of the benchmark with what the stage before it
\* returned (the group benchmark setup, or else the suite setup), and the
\* benchmark function with what the last stage before it returned
C25_SetupValuePassedDown ==
    \A p \in 1..Len(calls) :
        /\ calls[p].what = "groupBenchmarkSetup" =>
               calls[p].arg = SuiteSetupValue(calls[p].at)
        /\ calls[p].what = SetupFunction =>
               calls[p].arg = BenchmarkSetupValue(calls[p].at)
        /\ calls[p].what = "fn" =>
               calls[p].arg = SetupValue(calls[p].at)

\* C26: when run() has resolved, the run() of every after-each reporter
\* was called once for each benchmark, with its report, after its function
\* and before the next benchmark started, and the run() of every after-all
\* reporter once, with the suite report, after every other call; a reporter
\* is called at its own timing only, and before run() resolves no after-all
\* reporter is called
C26_ReporterTiming ==
    /\ suitePc = "resolved" =>
        /\ \A r \in 1..Len(reporters["after-each"]) :
               LET ran == WhereOf("after-each", reporters["after-each"][r])
               IN  /\ Cardinality(ran) = Len(benchmarks)
                   /\ \A n \in 1..Len(benchmarks) : \E p \in ran :
                          /\ calls[p].at = n
                          /\ calls[p].arg = reports[n]
                          /\ calls[p].arg.name = benchmarks[n].name
                          /\ \A q \in Where("fn", n) : q < p
                          /\ \A q \in Where("before-run", n + 1) : p < q
        /\ \A r \in 1..Len(reporters["after-all"]) :
               LET ran == WhereOf("after-all", reporters["after-all"][r])
               IN  /\ Cardinality(ran) = 1
                   /\ \A p \in ran :
                          /\ calls[p].arg = settled.value
                          /\ calls[p].arg.results = reports
                          /\ \A q \in 1..Len(calls) :
                                 calls[q].what # "after-all" => q < p
    /\ \A p \in 1..Len(calls) : \A timing \in DOMAIN reporters :
           calls[p].what = timing =>
               \E r \in 1..Len(reporters[timing]) :
                   calls[p].of = reporters[timing][r]
    /\ suitePc # "resolved" =>
           \A p \in 1..Len(calls) : calls[p].what # "after-all"

\* C26: run() resolved for two benchmarks or more and both reporters
C26_Witness ==
    /\ suitePc = "resolved"
    /\ Len(benchmarks) >= 2
    /\ Len(reporters["after-each"]) = 1
    /\ Len(reporters["after-all"]) = 1
    /\ calls[Len(calls)].what = "after-all"

\* C27: when a benchmark function has thrown, one error event was
\* dispatched, with the name of that benchmark and the error, right after
\* the call of the function; run() rejected with that error; nothing was
\* called for a later benchmark and no after-all reporter ran.  No error
\* event is dispatched otherwise.
C27_FunctionThrows ==
    /\ suitePc = "rejected" =>
        LET name == benchmarks[benchmark].name
        IN  /\ Cardinality({p \in 1..Len(calls) : calls[p].what = "error"}) = 1
            /\ calls[Len(calls)] =
                   Call("error", name, benchmark, FunctionError(name))
            /\ calls[Len(calls) - 1].what = "fn"
            /\ calls[Len(calls) - 1].at = benchmark
            /\ settled = [kind |-> "rejected", error |-> FunctionError(name)]
            /\ Len(reports) = benchmark - 1
            /\ \A p \in 1..Len(calls) :
                   calls[p].at <= benchmark /\ calls[p].what # "after-all"
    /\ suitePc # "rejected" =>
           \A p \in 1..Len(calls) : calls[p].what # "error"

\* C27: the function of the second of three benchmarks threw, in a suite
\* with an after-all reporter
C27_Witness ==
    /\ suitePc = "rejected"
    /\ benchmark = 2
    /\ Len(benchmarks) = 3
    /\ Len(reporters["after-all"]) = 1

\* something was called for the benchmark at n
Started(n) == \E p \in 1..Len(calls) : calls[p].at = n

\* C28: for every benchmark that was started, before-run was dispatched
\* once, before anything else for that benchmark; for every benchmark that
\* completed, after-run was dispatched once, with its name and report,
\* after its function and teardown hooks and before its after-each
\* reporters; for a benchmark that did not complete it was not dispatched
C28_RunEvents ==
    \A n \in 1..Len(benchmarks) :
        /\ Started(n) =>
            /\ Cardinality(Where("before-run", n)) = 1
            /\ \A p \in Where("before-run", n) :
                   /\ calls[p].of = benchmarks[n].name
                   /\ \A q \in 1..Len(calls) : calls[q].at = n => p <= q
        /\ ~Started(n) => Where("before-run", n) = {}
        /\ n <= Len(reports) =>
            /\ Cardinality(Where("after-run", n)) = 1
            /\ \A p \in Where("after-run", n) :
                   /\ calls[p].of = benchmarks[n].name
                   /\ calls[p].arg = reports[n]
                   /\ \A q \in Where("fn", n)
                               \cup Where("groupBenchmarkTeardown", n)
                               \cup Where("groupSuiteTeardown", n) : q < p
                   /\ \A q \in Where("after-each", n) : p < q
        /\ n > Len(reports) => Where("after-run", n) = {}

\* C28: run() resolved for a benchmark with both teardown hooks and an
\* after-each reporter
C28_Witness ==
    /\ suitePc = "resolved"
    /\ Where("groupBenchmarkTeardown", 1) # {}
    /\ Where("groupSuiteTeardown", 1) # {}
    /\ Where("after-each", 1) # {}
    /\ Where("after-run", 1) # {}

\* C29: what run() resolves with has one report for each benchmark of the
\* queue, in the order of the queue, with the name of the benchmark and
\* the group if it has one; and the function of a benchmark is called only
\* after the benchmark before it has completed
C29_ReportPerBenchmark ==
    /\ suitePc = "resolved" =>
        /\ settled.kind = "resolved"
        /\ settled.value.results =
               [n \in 1..Len(benchmarks) |->
                   IF benchmarks[n].group # Absent
                   THEN [name |-> benchmarks[n].name,
                         group |-> benchmarks[n].group]
                   ELSE [name |-> benchmarks[n].name]]
    /\ \A n \in 1..Len(benchmarks) :
           \A p \in Where("fn", n + 1) : \E q \in Where("after-run", n) : q < p

\* C29: run() resolved for an ungrouped benchmark between two of a group
C29_Witness ==
    /\ suitePc = "resolved"
    /\ Len(settled.value.results) = 3
    /\ InGroup("Group 1") = {1, 3}
    /\ benchmarks[2].group = Absent

\* what C30 says of a state: the setup of a benchmark is called once if it
\* has one and was started, not at all otherwise, and before its function;
\* and setup() would throw when there is no function to take
SetupRunsOnce ==
    /\ \A n \in 1..Len(benchmarks) :
           /\ Cardinality(Where(SetupFunction, n)) =
                  IF Started(n) /\ benchmarks[n].setup # Absent THEN 1 ELSE 0
           /\ \A p \in Where(SetupFunction, n) : \A q \in Where("fn", n) : p < q
    /\ \A p \in 1..Len(calls) :
           calls[p].what = SetupFunction => calls[p].at \in 1..Len(benchmarks)
    /\ (suitePc = "idle" /\ benchmarkSetup = Absent) =>
           ENABLED (Setup(Absent) /\ suitePc' = "threw")

\* what C30 says of a step: a benchmark that is added takes the pending
\* setup, if there is one, and leaves none pending; a setup becomes pending
\* only by a call that adds no benchmark; the setup of a benchmark in the
\* queue does not change; and a call that throws changes nothing else
SetupAttachedToNext ==
    /\ Len(benchmarks') > Len(benchmarks) =>
           /\ benchmarks'[Len(benchmarks')].setup = pendingSetup
           /\ pendingSetup' = Absent
    /\ \A n \in 1..Len(benchmarks) : benchmarks'[n] = benchmarks[n]
    /\ (pendingSetup' # Absent /\ pendingSetup' # pendingSetup) =>
           benchmarks' = benchmarks
    /\ suitePc' = "threw" =>
           /\ benchmarkSetup = Absent
           /\ settled'.error = Error(<<"Setup function not defined.">>)
           /\ benchmarks' = benchmarks
           /\ pendingSetup' = pendingSetup

C31_AddDuplicateThrows ==
    [][\A name \in QueueNames :
          (/\ SuiteAdd(name)
           /\ \E n \in 1..Len(benchmarks) : benchmarks[n].name = name)
          => /\ suitePc' = "threw"
             /\ settled' =
                    [kind |-> "thrown",
                     error |-> Error(<<"Benchmark with name already exists.",
                                       name>>)]
             /\ benchmarks' = benchmarks
             /\ pendingSetup' = pendingSetup]_vars

\* C31: add() threw for the name of a benchmark of a group, with a setup
\* pending
C31_Witness ==
    /\ suitePc = "threw"
    /\ settled.error.message[1] = "Benchmark with name already exists."
    /\ pendingSetup = SetupFunction
    /\ \E n \in 1..Len(benchmarks) :
           /\ benchmarks[n].name = settled.error.message[2]
           /\ benchmarks[n].group # Absent

\* C38: no two benchmarks of the queue have the same name, and no two
\* reports of the suite have
C38_UniqueNames ==
    /\ \A m, n \in 1..Len(benchmarks) :
           m # n => benchmarks[m].name # benchmarks[n].name
    /\ \A m, n \in 1..Len(reports) :
           m # n => reports[m].name # reports[n].name

\* C33: when run() has rejected, an error event with the name of the
\* benchmark that was being run has been dispatched
C33_ErrorEventBeforeRejection ==
    suitePc = "rejected" =>
        \E p \in 1..Len(calls) :
            /\ calls[p].what = "error"
            /\ calls[p].of = benchmarks[benchmark].name
            /\ calls[p].arg = settled.error

\* C34: for no benchmark have both after-run and error been dispatched
C34_AfterRunOrError ==
    \A n \in 1..Len(benchmarks) :
        Where("after-run", n) = {} \/ Where("error", n) = {}

\* C35: when run() has settled, every call of a group suite setup that
\* returned is followed by one call of the suite teardown of that group, if
\* the group has one
C35_SuiteTeardownFollowsSetup ==
    suitePc \in {"resolved", "rejected"} =>
        \A p \in 1..Len(calls) :
            (/\ calls[p].what = "groupSuiteSetup"
             /\ calls[p].of \in groupSuiteTeardown
             /\ ~(/\ suitePc = "rejected"
                  /\ settled.error = HookError(calls[p])))
            => Cardinality({q \in p + 1..Len(calls) :
                               /\ calls[q].what = "groupSuiteTeardown"
                               /\ calls[q].of = calls[p].of}) = 1

\* the benchmarks whose function the last run() called and saw return
Completed ==
    {n \in 1..Len(benchmarks) :
        /\ Where("fn", n) # {}
        /\ ~(/\ suitePc = "rejected"
             /\ benchmark = n
             /\ settled.error = FunctionError(benchmarks[n].name))}

\* C39: after run() was called once or more, the reports of the suite are
\* the reports of the benchmarks completed in the last run(), in their
\* order, and when that run() has resolved they are the results of the
\* report it resolved with
C39_ReportsOfLastRun ==
    suiteRuns >= 1 =>
        /\ Completed = 1..Len(reports)
        /\ \A n \in 1..Len(reports) : reports[n].name = benchmarks[n].name
        /\ suitePc = "resolved" =>
               /\ getSuiteReport(reports).results = settled.value.results
               /\ Len(reports) = Len(benchmarks)

\* C39: a second run() has resolved for two benchmarks
C39_Witness ==
    /\ suiteRuns >= 2
    /\ suitePc = "resolved"
    /\ Len(benchmarks) = 2
    /\ Len(settled.value.results) = 2

\* SuiteConfig.load() was called and has returned
LoadDone == configLoads = 1 /\ \A c \in Callers : loadPc[c] # "loading"

\* a configuration file was found and can be read
FileRead == configFile # NoFile /\ configFile # Unreadable

\* C32: when SuiteConfig.load() has returned after reading the file, the
\* options have, for every key, the value the constructor was given if it
\* was given one and else the value of the file, and a getter returns that
\* value unless it is 0; when reading the file failed, the error was
\* logged, load() resolved and the options are those of the constructor
C32_ConstructorOverFile ==
    /\ (LoadDone /\ FileRead) =>
        /\ DOMAIN configOptions = DOMAIN initOptions \cup DOMAIN configFile
        /\ \A key \in DOMAIN configOptions :
            /\ configOptions[key] =
                   IF key \in DOMAIN initOptions THEN initOptions[key]
                   ELSE configFile[key]
            /\ configOptions[key] # 0 => Getter(key) = configOptions[key]
        /\ logged = <<>>
    /\ (LoadDone /\ configFile = Unreadable) =>
        /\ configOptions = initOptions
        /\ logged = << <<"Error loading configuration file:">> >>
        /\ \E c \in Callers : loadPc[c] \in {"resolved", "running"}
    /\ (LoadDone /\ configFile = NoFile) =>
        /\ configOptions = initOptions
        /\ logged = <<>>
    /\ ~LoadDone => configOptions = initOptions

\* C32: a file with both keys was read for a constructor given one of them
C32_Witness ==
    /\ LoadDone
    /\ initOptions = [key \in {"maxIterations"} |-> 5]
    /\ FileRead
    /\ DOMAIN configFile = ConfigKeys
    /\ configFile["maxIterations"] = 20
    /\ configOptions["maxIterations"] = 5
    /\ configOptions["warmupIterations"] = 20

\* C36: the Benchmarker that run() makes for a benchmark without options of
\* its own, in a suite without a configuration file, has the options of a
\* Benchmarker made with the options the suite was given: an option given
\* as 0 is 0
C36_ZeroReachesBenchmarker ==
    \A c \in Callers :
        (/\ loadPc[c] = "running"
         /\ benchmarkOptions = NoOptions
         /\ ~FileRead)
        => opts = Destructured(initOptions)

\* C37: the Benchmarker that run() makes for a benchmark with options of
\* its own has, for every option the benchmark gives, the value of the
\* benchmark, and for every other option that the suite has a value for,
\* of the constructor or of the file and other than 0, the value of the
\* suite
C37_BenchmarkOptionsOverSuite ==
    \A c \in Callers :
        (/\ loadPc[c] = "running"
         /\ benchmarkOptions # NoOptions
         /\ LoadDone)
        => \A key \in DOMAIN DefaultOptions :
            /\ key \in DOMAIN benchmarkOptions =>
                   opts[key] = benchmarkOptions[key]
            /\ (/\ key \notin DOMAIN benchmarkOptions
                /\ key \in DOMAIN configOptions
                /\ configOptions[key] # 0)
               => opts[key] = configOptions[key]

\* C40: SuiteConfig.load() is called once at most, and when a load() of
\* the Suite has resolved, the options of the file that is there to read
\* have been merged into the options of the suite
C40_LoadedWhenResolved ==
    /\ configLoads <= 1
    /\ \A c \in Callers :
           (loadPc[c] \in {"resolved", "running"} /\ FileRead)
           => /\ DOMAIN configFile \subseteq DOMAIN configOptions
              /\ \A key \in DOMAIN configFile \ DOMAIN initOptions :
                     configOptions[key] = configFile[key]

=============================================================================
